---- MODULE Spec2Model ----
(***************************************************************************)
(* A model of llmcli: the metadata store (internal/db), the model commands *)
(* (internal/model) and the process supervisor (internal/server).          *)
(*                                                                         *)
(* Strings are sequences of one-character strings, so that the string      *)
(* functions of the code (ToLower, ReplaceAll, Trim, HasSuffix, Join,      *)
(* Split) are computed and not assumed.                                    *)
(***************************************************************************)
EXTENDS Integers, Sequences, FiniteSets, TLC

VARIABLES
    models,     \* the rows of table `models`, one record per row (the rowid,
                \* which no command reads, is left out)
    clock,      \* CURRENT_TIMESTAMP, in seconds
    dirs,       \* the directories that exist on disk
    files,      \* the regular files on disk: path -> size in bytes
    last,       \* the last operation: its name, arguments and result
    wait,       \* one WaitForServer call: its budget, loop counter and result
    health,     \* what the health endpoint answers to the 1st, 2nd, ... check
    procs,      \* the process table: the processes that are alive
    spawned,    \* the command lines of the processes started so far, by pid
    port,       \* the pid of the process that holds the server port, 0 when free
    logs,       \* the log files under /tmp that were created
    inv,        \* the invocations of EnsureServerRunning: where each one stands
    kill,       \* one Kill or KillAll call: where it stands and what it scanned
    sigs,       \* the signals sent so far, in order
    proxy       \* one command that talks to the server: its requests and output

storeVars == <<models, clock, dirs, files, last>>

waitVars == <<wait, health>>

osVars == <<procs, spawned, port, logs>>

vars == <<models, clock, dirs, files, last, wait, health,
          procs, spawned, port, logs, inv, kill, sigs, proxy>>

----------------------------------------------------------------------------
(* Bounds of the model *)

MaxClock == 2
MaxWait == 3
NumProcs == 2
MaxStarts == 1
MaxTurns == 2
MaxIdLen == 4
MaxLines == 3

----------------------------------------------------------------------------
(* Strings *)

UpperSeq == <<"A","B","C","D","E","F","G","H","I","J","K","L","M",
              "N","O","P","Q","R","S","T","U","V","W","X","Y","Z">>
LowerSeq == <<"a","b","c","d","e","f","g","h","i","j","k","l","m",
              "n","o","p","q","r","s","t","u","v","w","x","y","z">>
DigitSeq == <<"0","1","2","3","4","5","6","7","8","9">>

Range(s) == {s[i] : i \in DOMAIN s}

\* the lower-case letter of each upper-case letter
LowerOf == [c \in Range(UpperSeq) |->
               LowerSeq[CHOOSE i \in DOMAIN UpperSeq : UpperSeq[i] = c]]

ToLowerChar(c) == IF c \in DOMAIN LowerOf THEN LowerOf[c] ELSE c

\* strings.ToLower
ToLower(s) == [i \in DOMAIN s |-> ToLowerChar(s[i])]

\* strings.HasSuffix
HasSuffix(s, suf) ==
    /\ Len(suf) <= Len(s)
    /\ SubSeq(s, Len(s) - Len(suf) + 1, Len(s)) = suf

\* strings.HasPrefix
HasPrefix(s, pre) ==
    /\ Len(pre) <= Len(s)
    /\ SubSeq(s, 1, Len(pre)) = pre

\* strconv.Itoa / the %d verb, for n >= 0
RECURSIVE Itoa(_)
Itoa(n) == IF n < 10 THEN <<DigitSeq[n + 1]>>
           ELSE Itoa(n \div 10) \o <<DigitSeq[(n % 10) + 1]>>

----------------------------------------------------------------------------
(* internal/db: the store *)

NULL == 0   \* a NULL last_used; timestamps are >= 1

Slugs(rows) == {r.slug : r \in rows}

\* GetModelBySlug: the row with that slug, or the not-found error
GetModelBySlug(rows, slug, fault) ==
    IF fault THEN [err |-> "db"]
    ELSE IF \E r \in rows : r.slug = slug
    THEN [err |-> "ok", model |-> CHOOSE r \in rows : r.slug = slug]
    ELSE [err |-> "notfound"]

\* ORDER BY last_used DESC, created_at DESC (a NULL sorts last under DESC)
RowBefore(a, b) ==
    \/ a.last_used > b.last_used
    \/ a.last_used = b.last_used /\ a.created_at >= b.created_at

\* GetAllModels: the admissible results; rows that tie come in any order
GetAllModels(rows) ==
    {l \in [1..Cardinality(rows) -> rows] :
        /\ \A i, j \in DOMAIN l : i # j => l[i] # l[j]
        /\ \A i, j \in DOMAIN l : i < j => RowBefore(l[i], l[j])}

\* UpdateModelLastUsed: UPDATE models SET last_used = CURRENT_TIMESTAMP WHERE slug = ?
UpdateModelLastUsed(rows, slug, now, fault) ==
    IF fault THEN [err |-> "db", rows |-> rows]
    ELSE IF ~ \E r \in rows : r.slug = slug
    THEN [err |-> "notfound", rows |-> rows]
    ELSE [err |-> "ok",
          rows |-> {IF r.slug = slug THEN [r EXCEPT !.last_used = now] ELSE r
                    : r \in rows}]

\* a plain INSERT that ignores the UNIQUE index
AddModelNoReplace(rows, slug, modelID, fileName, filePath, fileSize, now, fault) ==
    IF fault THEN [err |-> "db", rows |-> rows]
    ELSE [err |-> "ok",
          rows |-> rows \cup
                   {[slug |-> slug, model_id |-> modelID,
                     file_name |-> fileName, file_path |-> filePath,
                     file_size |-> fileSize, created_at |-> now,
                     last_used |-> NULL]}]

\* an upsert that binds file_name and file_path the wrong way round
AddModelSwapped(rows, slug, modelID, fileName, filePath, fileSize, now, fault) ==
    IF fault THEN [err |-> "db", rows |-> rows]
    ELSE [err |-> "ok",
          rows |-> {r \in rows : r.slug # slug} \cup
                   {[slug |-> slug, model_id |-> modelID,
                     file_name |-> filePath, file_path |-> fileName,
                     file_size |-> fileSize, created_at |-> now,
                     last_used |-> NULL]}]

\* AddModel: INSERT OR REPLACE INTO models (slug, model_id, file_name, file_path,
\* file_size): the row holding the slug is deleted, the new row takes
\* created_at from its default CURRENT_TIMESTAMP and last_used NULL
AddModel(rows, slug, modelID, fileName, filePath, fileSize, now, fault) ==
    IF fault THEN [err |-> "db", rows |-> rows]
    ELSE [err |-> "ok",
          rows |-> {r \in rows : r.slug # slug} \cup
                   {[slug |-> slug, model_id |-> modelID,
                     file_name |-> fileName, file_path |-> filePath,
                     file_size |-> fileSize, created_at |-> now,
                     last_used |-> NULL]}]

\* a delete that reports success when no row matched
RemoveModelSilent(rows, slug, fault) ==
    IF fault THEN [err |-> "db", rows |-> rows]
    ELSE [err |-> "ok", rows |-> {r \in rows : r.slug # slug}]

\* RemoveModel: DELETE FROM models WHERE slug = ?, not-found when no row matched
RemoveModel(rows, slug, fault) ==
    IF fault THEN [err |-> "db", rows |-> rows]
    ELSE IF ~ \E r \in rows : r.slug = slug
    THEN [err |-> "notfound", rows |-> rows]
    ELSE [err |-> "ok", rows |-> {r \in rows : r.slug # slug}]

\* a rename that rebuilds the row instead of updating one column
UpdateModelSlugFresh(rows, oldSlug, newSlug, fault) ==
    IF fault THEN [err |-> "db", rows |-> rows]
    ELSE IF ~ \E r \in rows : r.slug = oldSlug
    THEN [err |-> "notfound", rows |-> rows]
    ELSE IF newSlug # oldSlug /\ \E r \in rows : r.slug = newSlug
    THEN [err |-> "db", rows |-> rows]
    ELSE [err |-> "ok",
          rows |-> {IF r.slug = oldSlug
                    THEN [r EXCEPT !.slug = newSlug, !.last_used = NULL]
                    ELSE r : r \in rows}]

\* UpdateModelSlug: UPDATE models SET slug = ? WHERE slug = ?; the UNIQUE index
\* on slug makes the statement fail when another row holds the new slug
UpdateModelSlug(rows, oldSlug, newSlug, fault) ==
    IF fault THEN [err |-> "db", rows |-> rows]
    ELSE IF ~ \E r \in rows : r.slug = oldSlug
    THEN [err |-> "notfound", rows |-> rows]
    ELSE IF newSlug # oldSlug /\ \E r \in rows : r.slug = newSlug
    THEN [err |-> "db", rows |-> rows]
    ELSE [err |-> "ok",
          rows |-> {IF r.slug = oldSlug THEN [r EXCEPT !.slug = newSlug] ELSE r
                    : r \in rows}]

----------------------------------------------------------------------------
(* internal/model: identifiers, slugs and paths *)

AlnumChars == Range(UpperSeq) \cup Range(LowerSeq) \cup Range(DigitSeq)

\* the positions of character c in s
Positions(s, c) == {i \in DOMAIN s : s[i] = c}

\* validateModelID: ^[a-zA-Z0-9_-]+/[a-zA-Z0-9_.-]+$
validateModelID(modelID) ==
    \E k \in DOMAIN modelID :
        /\ modelID[k] = "/"
        /\ k > 1 /\ k < Len(modelID)
        /\ \A i \in 1..(k - 1) : modelID[i] \in AlnumChars \cup {"_", "-"}
        /\ \A i \in (k + 1)..Len(modelID) : modelID[i] \in AlnumChars \cup {"_", ".", "-"}

\* strings.ReplaceAll for a one-character pattern
ReplaceAll(s, from, to) == [i \in DOMAIN s |-> IF s[i] = from THEN to ELSE s[i]]

\* regexp [^a-z0-9-] with ReplaceAllString(slug, "-")
ReplaceNonSlugChars(s) ==
    [i \in DOMAIN s |->
        IF s[i] \in Range(LowerSeq) \cup Range(DigitSeq) \cup {"-"} THEN s[i] ELSE "-"]

\* strings.Trim(s, "-")
RECURSIVE TrimLeft(_, _)
TrimLeft(s, c) == IF s # <<>> /\ Head(s) = c THEN TrimLeft(Tail(s), c) ELSE s

RECURSIVE TrimRight(_, _)
TrimRight(s, c) ==
    IF s # <<>> /\ s[Len(s)] = c THEN TrimRight(SubSeq(s, 1, Len(s) - 1), c) ELSE s

Trim(s, c) == TrimRight(TrimLeft(s, c), c)

\* a slug whose hyphens at the ends are left in place
generateSlugUntrimmed(modelID) ==
    ReplaceNonSlugChars(ReplaceAll(ToLower(modelID), "/", "-"))

\* generateSlug
generateSlug(modelID) ==
    Trim(ReplaceNonSlugChars(ReplaceAll(ToLower(modelID), "/", "-")), "-")

\* cfg.ModelsDir (standing for ~/.cache/llm-cli/models)
ModelsDir == <<"/", "m">>

\* filepath.Join of two clean, non-empty paths
Join(a, b) == a \o <<"/">> \o b

\* the position of the last separator of a path (0 when there is none)
LastSep(p) ==
    IF Positions(p, "/") = {} THEN 0
    ELSE CHOOSE i \in Positions(p, "/") : \A j \in Positions(p, "/") : j <= i

\* filepath.Base and filepath.Dir of a clean path below the root
Base(p) == SubSeq(p, LastSep(p) + 1, Len(p))

Dir(p) == SubSeq(p, 1, LastSep(p) - 1)

\* strings.Split(s, "/")
RECURSIVE Split(_)
Split(s) ==
    IF Positions(s, "/") = {} THEN <<s>>
    ELSE LET k == CHOOSE i \in Positions(s, "/") : \A j \in Positions(s, "/") : i <= j
         IN  <<SubSeq(s, 1, k - 1)>> \o Split(SubSeq(s, k + 1, Len(s)))

\* filepath.Rel(base, p) for p below base
Rel(base, p) == SubSeq(p, Len(base) + 2, Len(p))

\* fmt.Sprintf("%dM", size/(1024*1024))
MiB == 1048576

FormatSize(bytes) == Itoa(bytes \div MiB) \o <<"M">>

----------------------------------------------------------------------------
(* the file system below cfg.ModelsDir *)

Exists(ds, fs, p) == p \in ds \/ p \in DOMAIN fs

\* the directories from ModelsDir down to p
RECURSIVE Ancestors(_)
Ancestors(p) == IF Len(p) <= Len(ModelsDir) THEN {ModelsDir}
                ELSE {p} \cup Ancestors(Dir(p))

\* os.MkdirAll(p): fails when a component of p is a regular file
MkdirAll(ds, fs, p) ==
    IF \E a \in Ancestors(p) : a \in DOMAIN fs
    THEN [err |-> "mkdir", dirs |-> ds]
    ELSE [err |-> "ok", dirs |-> ds \cup Ancestors(p)]

\* filepath.Glob(dir + "/*.gguf"): the entries of dir whose name ends in .gguf
GlobGguf(ds, fs, dir) ==
    {p \in ds \cup DOMAIN fs :
        /\ Len(p) > Len(dir) /\ Dir(p) = dir
        /\ HasSuffix(Base(p), <<".", "g", "g", "u", "f">>)}

\* the function fs without the file p
Without(fs, p) == [q \in DOMAIN fs \ {p} |-> fs[q]]

\* the function fs with the file p of the given size
WithFile(fs, p, size) == [q \in DOMAIN fs \cup {p} |-> IF q = p THEN size ELSE fs[q]]

\* os.Remove(p): unlinks a file or removes an empty directory
OsRemove(ds, fs, p, denied) ==
    IF denied THEN [err |-> "perm", dirs |-> ds, files |-> fs]
    ELSE IF p \in DOMAIN fs THEN [err |-> "ok", dirs |-> ds, files |-> Without(fs, p)]
    ELSE IF p \in ds /\ ~ \E q \in ds \cup DOMAIN fs : Len(q) > Len(p) /\ Dir(q) = p
    THEN [err |-> "ok", dirs |-> ds \ {p}, files |-> fs]
    ELSE [err |-> "noent", dirs |-> ds, files |-> fs]

----------------------------------------------------------------------------
(* filepath.Walk: pre-order, the names of each directory in lexical order *)

AsciiSeq == <<"-", ".", "/">> \o DigitSeq \o UpperSeq \o <<"_">> \o LowerSeq

OrdOf == [c \in Range(AsciiSeq) |-> CHOOSE i \in DOMAIN AsciiSeq : AsciiSeq[i] = c]

Ord(c) == OrdOf[c]

\* a < b as Go compares strings (byte-wise)
RECURSIVE StrLess(_, _)
StrLess(a, b) ==
    IF b = <<>> THEN FALSE
    ELSE IF a = <<>> THEN TRUE
    ELSE IF Head(a) # Head(b) THEN Ord(Head(a)) < Ord(Head(b))
    ELSE StrLess(Tail(a), Tail(b))

Children(ds, fs, dir) ==
    {p \in ds \cup DOMAIN fs : Len(p) > Len(dir) /\ Dir(p) = dir}

RECURSIVE SortPaths(_)
SortPaths(S) ==
    IF S = {} THEN <<>>
    ELSE LET m == CHOOSE x \in S : \A y \in S \ {x} : StrLess(Base(x), Base(y))
         IN  <<m>> \o SortPaths(S \ {m})

RECURSIVE Walk(_, _, _)
RECURSIVE WalkEach(_, _, _)
WalkEach(ds, fs, ps) ==
    IF ps = <<>> THEN <<>>
    ELSE Walk(ds, fs, Head(ps)) \o WalkEach(ds, fs, Tail(ps))

Walk(ds, fs, p) ==
    IF p \in ds THEN <<p>> \o WalkEach(ds, fs, SortPaths(Children(ds, fs, p)))
    ELSE <<p>>

\* filepath.Join(parts...)
RECURSIVE JoinAll(_)
JoinAll(parts) ==
    IF Len(parts) = 1 THEN parts[1]
    ELSE Join(parts[1], JoinAll(Tail(parts)))

GgufExt == <<".", "g", "g", "u", "f">>

\* a model ID taken from the first path segment alone
ImportModelIDFirst(parts) == parts[1]

\* the model ID ImportExisting derives from the path segments below the root
ImportModelID(parts) ==
    IF Len(parts) > 2 THEN JoinAll(SubSeq(parts, 1, Len(parts) - 1)) ELSE parts[1]

\* the walk callback of ImportExisting on one entry; unreadable entries make it
\* return the walk's error, a failed AddModel is warned about and skipped
ImportEntry(rows, fs, path, now, unreadable, faultAt) ==
    IF path \in unreadable THEN [err |-> "walk", rows |-> rows]
    ELSE IF path \in DOMAIN fs /\ HasSuffix(ToLower(path), GgufExt)
    THEN LET parts == Split(Rel(ModelsDir, path))
         IN  IF Len(parts) < 2 THEN [err |-> "ok", rows |-> rows]
             ELSE [err |-> "ok",
                   rows |-> AddModel(rows, generateSlug(ImportModelID(parts)),
                                     ImportModelID(parts), Base(path), path,
                                     FormatSize(fs[path]), now,
                                     path \in faultAt).rows]
    ELSE [err |-> "ok", rows |-> rows]

RECURSIVE ImportWalk(_, _, _, _, _, _)
ImportWalk(rows, fs, walk, now, unreadable, faultAt) ==
    IF walk = <<>> THEN [err |-> "ok", rows |-> rows]
    ELSE LET r == ImportEntry(rows, fs, Head(walk), now, unreadable, faultAt)
         IN  IF r.err # "ok" THEN r
             ELSE ImportWalk(r.rows, fs, Tail(walk), now, unreadable, faultAt)

\* ImportExisting
ImportExisting(rows, ds, fs, now, unreadable, faultAt) ==
    ImportWalk(rows, fs, Walk(ds, fs, ModelsDir), now, unreadable, faultAt)

\* ResetDB: close the store, delete its file, open a new one and import
ResetDB(rows, ds, fs, now, fault, unreadable, faultAt) ==
    IF fault = "remove" THEN [err |-> "io", rows |-> rows]
    ELSE IF fault = "open" THEN [err |-> "io", rows |-> {}]
    ELSE ImportExisting({}, ds, fs, now, unreadable, faultAt)

----------------------------------------------------------------------------
(* internal/model: the commands *)

Q4Suffix == <<"q", "4", "_", "k", "_", "m", ".", "g", "g", "u", "f">>

\* a selection that keeps the last sibling that matches
RECURSIVE SelectFileLast(_)
SelectFileLast(manifest) ==
    IF manifest = <<>> THEN <<>>
    ELSE IF HasSuffix(ToLower(manifest[Len(manifest)]), Q4Suffix)
    THEN manifest[Len(manifest)]
    ELSE SelectFileLast(SubSeq(manifest, 1, Len(manifest) - 1))

\* the first sibling whose lower-cased name ends in q4_k_m.gguf, "" when none
RECURSIVE SelectFile(_)
SelectFile(manifest) ==
    IF manifest = <<>> THEN <<>>
    ELSE IF HasSuffix(ToLower(Head(manifest)), Q4Suffix) THEN Head(manifest)
    ELSE SelectFile(Tail(manifest))

\* a pull that makes the directory before it looks for the file
PullMkdirFirst(rows, ds, fs, now, modelID, env) ==
    LET modelDir == Join(ModelsDir, modelID)
        same     == [rows |-> rows, dirs |-> ds, files |-> fs]
        f        == SelectFile(env.manifest)
        mk       == MkdirAll(ds, fs, modelDir)
        target   == Join(modelDir, f)
        got      == WithFile(fs, target, env.size)
        add      == AddModel(rows, generateSlug(modelID), modelID, f, target,
                             FormatSize(env.size), now, env.dbFault)
    IN  IF ~ validateModelID(modelID) THEN [err |-> "invalid"] @@ same
        ELSE IF Exists(ds, fs, modelDir) /\ GlobGguf(ds, fs, modelDir) # {}
        THEN [err |-> "exists"] @@ same
        ELSE IF env.http # "ok" THEN [err |-> "hub"] @@ same
        ELSE IF mk.err # "ok" THEN [err |-> "mkdir"] @@ same
        ELSE IF f = <<>>
        THEN [err |-> "nofile", rows |-> rows, dirs |-> mk.dirs, files |-> fs]
        ELSE IF env.download = "fail"
        THEN [err |-> "download", rows |-> rows, dirs |-> mk.dirs, files |-> fs]
        ELSE IF env.download = "missing"
        THEN [err |-> "stat", rows |-> rows, dirs |-> mk.dirs, files |-> fs]
        ELSE [err |-> add.err, rows |-> add.rows,
              dirs |-> mk.dirs \cup Ancestors(Dir(target)), files |-> got]

\* Pull. The outcome "exists" is the warning with which Pull returns nil.
\* env gives what the hub, the downloader and the database do:
\* http in {"ok", "neterr", "status", "parse"}, manifest (the siblings),
\* download in {"ok", "fail", "missing"}, size (bytes), dbFault
Pull(rows, ds, fs, now, modelID, env) ==
    LET modelDir == Join(ModelsDir, modelID)
        same     == [rows |-> rows, dirs |-> ds, files |-> fs]
        f        == SelectFile(env.manifest)
        mk       == MkdirAll(ds, fs, modelDir)
        target   == Join(modelDir, f)
        got      == WithFile(fs, target, env.size)
        add      == AddModel(rows, generateSlug(modelID), modelID, f, target,
                             FormatSize(env.size), now, env.dbFault)
    IN  IF ~ validateModelID(modelID) THEN [err |-> "invalid"] @@ same
        ELSE IF Exists(ds, fs, modelDir) /\ GlobGguf(ds, fs, modelDir) # {}
        THEN [err |-> "exists"] @@ same
        ELSE IF env.http # "ok" THEN [err |-> "hub"] @@ same
        ELSE IF f = <<>> THEN [err |-> "nofile"] @@ same
        ELSE IF mk.err # "ok" THEN [err |-> "mkdir"] @@ same
        ELSE IF env.download = "fail"
        THEN [err |-> "download", rows |-> rows, dirs |-> mk.dirs, files |-> fs]
        ELSE IF env.download = "missing"
        THEN [err |-> "stat", rows |-> rows, dirs |-> mk.dirs, files |-> fs]
        ELSE [err |-> add.err, rows |-> add.rows,
              dirs |-> mk.dirs \cup Ancestors(Dir(target)), files |-> got]

\* rm with the record deleted before the file
RemoveRecordFirst(rows, ds, fs, slug, getFault, denied, dbFault) ==
    LET g  == GetModelBySlug(rows, slug, getFault)
        d  == RemoveModel(rows, slug, dbFault)
        rm == OsRemove(ds, fs, g.model.file_path, denied)
    IN  IF g.err # "ok"
        THEN [err |-> g.err, rows |-> rows, dirs |-> ds, files |-> fs]
        ELSE IF d.err # "ok"
        THEN [err |-> d.err, rows |-> rows, dirs |-> ds, files |-> fs]
        ELSE IF rm.err # "ok"
        THEN [err |-> "file", rows |-> d.rows, dirs |-> ds, files |-> fs]
        ELSE [err |-> "ok", rows |-> d.rows, dirs |-> rm.dirs, files |-> rm.files]

\* rm that goes on to the record when the file could not be deleted
RemoveDespiteFile(rows, ds, fs, slug, getFault, denied, dbFault) ==
    LET g  == GetModelBySlug(rows, slug, getFault)
        rm == OsRemove(ds, fs, g.model.file_path, denied)
        d  == RemoveModel(rows, slug, dbFault)
    IN  IF g.err # "ok"
        THEN [err |-> g.err, rows |-> rows, dirs |-> ds, files |-> fs]
        ELSE [err |-> d.err, rows |-> d.rows, dirs |-> rm.dirs, files |-> rm.files]

\* Remove (rm): look the record up, os.Remove its file, then RemoveModel
Remove(rows, ds, fs, slug, getFault, denied, dbFault) ==
    LET g  == GetModelBySlug(rows, slug, getFault)
        rm == OsRemove(ds, fs, g.model.file_path, denied)
        d  == RemoveModel(rows, slug, dbFault)
    IN  IF g.err # "ok"
        THEN [err |-> g.err, rows |-> rows, dirs |-> ds, files |-> fs]
        ELSE IF rm.err # "ok"
        THEN [err |-> "file", rows |-> rows, dirs |-> ds, files |-> fs]
        ELSE [err |-> d.err, rows |-> d.rows, dirs |-> rm.dirs, files |-> rm.files]

\* Alias: old must exist, new must not, then UpdateModelSlug
Alias(rows, oldSlug, newSlug, oldFault, newFault, dbFault) ==
    IF GetModelBySlug(rows, oldSlug, oldFault).err # "ok"
    THEN [err |-> GetModelBySlug(rows, oldSlug, oldFault).err, rows |-> rows]
    ELSE IF GetModelBySlug(rows, newSlug, newFault).err = "ok"
    THEN [err |-> "exists", rows |-> rows]
    ELSE UpdateModelSlug(rows, oldSlug, newSlug, dbFault)

----------------------------------------------------------------------------
(* The inputs the store and the commands are exercised with *)

ID_ab    == <<"a", "/", "b">>
ID_Ab    == <<"A", "/", "b">>
ID_bad   == <<"a", "b">>

F_q4up   == <<"m", ".", "Q", "4", "_", "K", "_", "M", ".", "g", "g", "u", "f">>
F_q4low  == <<"n", "-", "q", "4", "_", "k", "_", "m", ".", "g", "g", "u", "f">>
F_f16    == <<"m", ".", "f", "1", "6", ".", "g", "g", "u", "f">>
F_readme == <<"r", ".", "m", "d">>

PullIDs == {ID_ab, ID_Ab, ID_bad}

FileSize == 2 * MiB + 1

SlugArgs == {generateSlug(ID_ab), <<"x">>}

\* the argument tuples AddModel is called with: the values differ between the
\* tuples and between the fields
AddArgs ==
    {<<ID_ab, F_q4low, Join(Join(ModelsDir, ID_ab), F_q4low), FormatSize(MiB - 1)>>,
     <<ID_Ab, F_f16, <<"/", "t", "/", "f">>, FormatSize(3 * MiB)>>}

\* what the hub, the downloader and the database do during one pull
PullOk == [http |-> "ok", manifest |-> <<F_readme, F_q4up, F_q4low>>,
           download |-> "ok", size |-> FileSize, dbFault |-> FALSE]

PullEnvs ==
    {PullOk,
     [PullOk EXCEPT !.http = "status"],
     [PullOk EXCEPT !.manifest = <<F_readme, F_f16>>],
     [PullOk EXCEPT !.download = "fail"],
     [PullOk EXCEPT !.dbFault = TRUE]}

\* at most one faulty step per command
StepFaults == {"none", "first", "second", "third"}

\* the faults of one import: one unreadable directory or one failing AddModel
ImportFaults(ds, fs) ==
    {[unreadable |-> {}, faultAt |-> {}]}
    \cup {[unreadable |-> {d}, faultAt |-> {}] : d \in ds \ {ModelsDir}}
    \cup {[unreadable |-> {}, faultAt |-> {f}] : f \in DOMAIN fs}

----------------------------------------------------------------------------
(* The store and the commands as a state machine *)

\* pre: what held of the arguments in the state the operation started from
Event(op, args, err, pre) == [op |-> op, args |-> args, err |-> err, pre |-> pre]

\* the variables of the supervisor, which the store and the commands leave alone
otherVars == <<wait, health, procs, spawned, port, logs, inv, kill, sigs, proxy>>

InitStore ==
    /\ models = {}
    /\ clock = 1
    /\ dirs = {ModelsDir}
    /\ files = << >>
    /\ last = Event("init", <<>>, "ok", FALSE)

\* a second passes
Tick ==
    /\ clock < MaxClock
    /\ clock' = clock + 1
    /\ last' = Event("tick", <<>>, "ok", FALSE)
    /\ UNCHANGED <<models, dirs, files>>
    /\ UNCHANGED otherVars

StoreAddModel ==
    \E slug \in SlugArgs, a \in AddArgs, fault \in BOOLEAN :
        LET r == AddModel(models, slug, a[1], a[2], a[3], a[4], clock, fault)
        IN  /\ models' = r.rows
            /\ last' = Event("AddModel", <<slug>> \o a, r.err, slug \in Slugs(models))
            /\ UNCHANGED <<clock, dirs, files>>
            /\ UNCHANGED otherVars

StoreUpdateModelSlug ==
    \E old \in SlugArgs, new \in SlugArgs, fault \in BOOLEAN :
        LET r == UpdateModelSlug(models, old, new, fault)
        IN  /\ models' = r.rows
            /\ last' = Event("UpdateModelSlug", <<old, new>>, r.err, old \in Slugs(models))
            /\ UNCHANGED <<clock, dirs, files>>
            /\ UNCHANGED otherVars

StoreRemoveModel ==
    \E slug \in SlugArgs, fault \in BOOLEAN :
        LET r == RemoveModel(models, slug, fault)
        IN  /\ models' = r.rows
            /\ last' = Event("RemoveModel", <<slug>>, r.err, slug \in Slugs(models))
            /\ UNCHANGED <<clock, dirs, files>>
            /\ UNCHANGED otherVars

StoreUpdateModelLastUsed ==
    \E slug \in SlugArgs, fault \in BOOLEAN :
        LET r == UpdateModelLastUsed(models, slug, clock, fault)
        IN  /\ models' = r.rows
            /\ last' = Event("UpdateModelLastUsed", <<slug>>, r.err, slug \in Slugs(models))
            /\ UNCHANGED <<clock, dirs, files>>
            /\ UNCHANGED otherVars

CmdPull ==
    \E id \in PullIDs, env \in PullEnvs :
        LET r == Pull(models, dirs, files, clock, id, env)
        IN  /\ models' = r.rows
            /\ dirs' = r.dirs
            /\ files' = r.files
            /\ last' = Event("pull", <<id>>, r.err, generateSlug(id) \in Slugs(models))
            /\ UNCHANGED clock
            /\ UNCHANGED otherVars

CmdRemove ==
    \E slug \in SlugArgs, fault \in StepFaults :
        LET r == Remove(models, dirs, files, slug,
                        fault = "first", fault = "second", fault = "third")
        IN  /\ models' = r.rows
            /\ dirs' = r.dirs
            /\ files' = r.files
            /\ last' = Event("rm", <<slug, fault>>, r.err,
                            \E x \in models : x.slug = slug /\ x.file_path \in DOMAIN files)
            /\ UNCHANGED clock
            /\ UNCHANGED otherVars

CmdAlias ==
    \E old \in SlugArgs, new \in SlugArgs, fault \in StepFaults :
        LET r == Alias(models, old, new,
                       fault = "first", fault = "second", fault = "third")
        IN  /\ models' = r.rows
            /\ last' = Event("alias", <<old, new>>, r.err, old \in Slugs(models))
            /\ UNCHANGED <<clock, dirs, files>>
            /\ UNCHANGED otherVars

CmdImport ==
    \E f \in ImportFaults(dirs, files) :
        LET r == ImportExisting(models, dirs, files, clock, f.unreadable, f.faultAt)
        IN  /\ models' = r.rows
            /\ last' = Event("import", <<f>>, r.err, models # {})
            /\ UNCHANGED <<clock, dirs, files>>
            /\ UNCHANGED otherVars

CmdReset ==
    \E fault \in {"none", "remove", "open"}, f \in ImportFaults(dirs, files) :
        LET r == ResetDB(models, dirs, files, clock, fault, f.unreadable, f.faultAt)
        IN  /\ fault # "none" => f.unreadable = {} /\ f.faultAt = {}
            /\ models' = r.rows
            /\ last' = Event("reset", <<fault, f>>, r.err, models # {})
            /\ UNCHANGED <<clock, dirs, files>>
            /\ UNCHANGED otherVars

----------------------------------------------------------------------------
(* internal/server: readiness polling *)

\* the default port of the inference server
DefaultPort == 1966

\* the budget EnsureServerRunning gives WaitForServer
EnsureWaitSeconds == 300

\* what GET /health meets on the j-th check: nothing listening, a server that
\* is still loading (503) or a healthy one (200)
Answer(h, j) ==
    IF j \in h.healthyAt THEN "ok"
    ELSE IF j >= h.listenFrom THEN "loading"
    ELSE "refused"

\* a check that takes any HTTP response for a healthy server
IsServerRunningAnyResponse(answer) == answer # "refused"

\* IsServerRunning: the request succeeded and the status is 200
IsServerRunning(answer) == answer = "ok"

\* a loop that runs once more than its budget
LoopCondInclusive(i, maxWaitSeconds) == i <= maxWaitSeconds

\* the loop condition of WaitForServer
LoopCond(i, maxWaitSeconds) == i < maxWaitSeconds

\* a WaitForServer call that has not polled yet
WaitStart(maxWaitSeconds) ==
    [N |-> maxWaitSeconds, i |-> 0, checks |-> 0, sleeps |-> 0, dots |-> 0,
     result |-> IF LoopCond(0, maxWaitSeconds) THEN "polling" ELSE "timeout"]

\* one iteration of the loop of WaitForServer: a dot on every 10th attempt, the
\* health check, and either the return or a sleep of one second; the loop
\* condition is evaluated before the next iteration
WaitStep(w, answer) ==
    LET dots == IF w.i > 0 /\ w.i % 10 = 0 THEN w.dots + 1 ELSE w.dots
    IN  IF IsServerRunning(answer)
        THEN [w EXCEPT !.dots = dots, !.checks = @ + 1, !.result = "ready"]
        ELSE [w EXCEPT !.dots = dots, !.checks = @ + 1, !.sleeps = @ + 1,
                       !.i = @ + 1,
                       !.result = IF LoopCond(w.i + 1, w.N) THEN "polling"
                                  ELSE "timeout"]

\* at most n iterations of the loop, the two halves one after the other
RECURSIVE WaitRun(_, _, _)
WaitRun(w, h, n) ==
    IF n = 0 \/ w.result # "polling" THEN w
    ELSE IF n = 1 THEN WaitStep(w, Answer(h, w.checks + 1))
    ELSE WaitRun(WaitRun(w, h, n \div 2), h, n - (n \div 2))

\* WaitForServer, run to its return
RECURSIVE WaitForServer(_, _)
WaitForServer(w, h) ==
    IF w.result # "polling" THEN w
    ELSE WaitForServer(WaitRun(w, h, 32), h)

\* the budgets WaitForServer is called with
WaitBudgets == (1..MaxWait) \cup {EnsureWaitSeconds}

\* the health endpoints WaitForServer is run against
Schedules(N) ==
    [listenFrom : {1, 3, N + 1},
     healthyAt : (SUBSET (1..MaxWait)) \cup {{5}, 5..N, {N}, {N + 1}, {5, 7}}]

InitWait ==
    /\ \E N \in WaitBudgets : wait = WaitStart(N)
    /\ health \in Schedules(wait.N)

\* one iteration of the polling loop
WaitTick ==
    /\ wait.result = "polling"
    /\ wait' = WaitStep(wait, Answer(health, wait.checks + 1))
    /\ UNCHANGED <<health, models, clock, dirs, files, last>>
    /\ UNCHANGED <<procs, spawned, port, logs, inv, kill, sigs, proxy>>

----------------------------------------------------------------------------
(* internal/server: processes *)

\* cfg.LlamaServer (LLAMA_SERVER names a binary on the PATH)
LlamaServer == <<"l", "l", "a", "m", "a", "-", "s", "e", "r", "v", "e", "r">>

\* the command line of exec.Command(cfg.LlamaServer, "-m", path, "--port", port)
CmdLine(path) ==
    LlamaServer \o <<" ", "-", "m", " ">> \o path
                \o <<" ", "-", "-", "p", "o", "r", "t", " ">> \o Itoa(DefaultPort)

\* the log file of a slug
LogFile(slug) ==
    <<"/", "t", "m", "p", "/", "l", "l", "a", "m", "a", "_", "s", "e", "r", "v",
      "e", "r", "_">> \o slug \o <<".", "l", "o", "g">>

LiteralAt(text, lit, i) ==
    /\ i + Len(lit) - 1 <= Len(text)
    /\ SubSeq(text, i, i + Len(lit) - 1) = lit

\* a pattern of literal characters and dots matches the text at position j
RegexAt(text, pat, j) ==
    /\ j + Len(pat) - 1 <= Len(text)
    /\ \A k \in 1..Len(pat) : pat[k] = "." \/ text[j + k - 1] = pat[k]

\* pgrep -f "llama-server": the command line contains the name
MatchesServer(cmd) == \E i \in 1..Len(cmd) : LiteralAt(cmd, LlamaServer, i)

\* pgrep -f "llama-server.*<path>": the name, and somewhere after it the path
\* read as a regular expression
MatchesServerPath(cmd, path) ==
    \E i \in 1..Len(cmd) :
        /\ LiteralAt(cmd, LlamaServer, i)
        /\ \E j \in (i + Len(LlamaServer))..(Len(cmd) + 1) : RegexAt(cmd, path, j)

\* IsServerRunningForPath; pgrep exits 1 when nothing matches, any other
\* failure of pgrep is an error
IsServerRunningForPath(ps, modelPath, fault) ==
    IF fault THEN [err |-> "pgrep", running |-> FALSE]
    ELSE [err |-> "ok",
          running |-> \E q \in ps : MatchesServerPath(q.cmd, modelPath)]

\* the pids pgrep prints, in ascending order
RECURSIVE SortPids(_)
SortPids(S) ==
    IF S = {} THEN <<>>
    ELSE LET m == CHOOSE x \in S : \A y \in S : x <= y
         IN  <<m>> \o SortPids(S \ {m})

PgrepServers(ps) == SortPids({q.pid : q \in {x \in ps : MatchesServer(x.cmd)}})

\* a process the program starts: it handles SIGTERM and belongs to the user
NewProcess(pid, cmd) ==
    [pid |-> pid, cmd |-> cmd, state |-> "started", onTerm |-> "exit",
     owned |-> TRUE, termed |-> FALSE]

\* process.Signal: fails when the process is gone or belongs to someone else;
\* SIGKILL ends the process, SIGTERM is left to the process to handle
Signal(ps, pid, sig) ==
    IF ~ \E q \in ps : q.pid = pid THEN [ok |-> FALSE, procs |-> ps]
    ELSE LET q == CHOOSE x \in ps : x.pid = pid
         IN  IF ~ q.owned THEN [ok |-> FALSE, procs |-> ps]
             ELSE IF sig = "KILL" THEN [ok |-> TRUE, procs |-> ps \ {q}]
             ELSE [ok |-> TRUE,
                   procs |-> (ps \ {q}) \cup {[q EXCEPT !.termed = TRUE]}]

\* the port is free again when its holder is gone
PortAfter(ps, holder) == IF \E q \in ps : q.pid = holder THEN holder ELSE 0

----------------------------------------------------------------------------
(* internal/server: EnsureServerRunning, one step per call it makes *)

Invocations == {"A", "B"}

\* the slugs ensure_running is called with; the last one is not in the store
SupSlugs == {<<"a">>, <<"b">>, <<"z">>}

P_a == <<"/", "m", "/", "a", ".", "g", "g", "u", "f">>
P_b == <<"/", "m", "/", "b", ".", "g", "g", "u", "f">>

\* a store with two models
SupModels ==
    AddModel(AddModel({}, <<"a">>, ID_ab, F_q4low, P_a, FormatSize(FileSize), 1, FALSE).rows,
             <<"b">>, ID_Ab, F_f16, P_b, FormatSize(FileSize), 1, FALSE).rows

Idle == [pc |-> "idle", slug |-> <<>>, path |-> <<>>, running |-> FALSE,
         pid |-> 0, log |-> FALSE, polls |-> 0, result |-> "", before |-> 0]

Done(st, result) == [st EXCEPT !.pc = "done", !.result = result]

\* GetModelBySlug and UpdateModelLastUsed
EnsureResolve(st, rows, slug, now, getFault, touchFault) ==
    LET g == GetModelBySlug(rows, slug, getFault)
        t == UpdateModelLastUsed(rows, slug, now, touchFault)
    IN  IF g.err # "ok" THEN [st |-> Done([st EXCEPT !.slug = slug], g.err), rows |-> rows]
        ELSE IF t.err # "ok"
        THEN [st |-> Done([st EXCEPT !.slug = slug], "touch"), rows |-> rows]
        ELSE [st |-> [st EXCEPT !.pc = "check", !.slug = slug,
                                !.path = g.model.file_path],
              rows |-> t.rows]

\* a liveness check whose positive answer does not end the call
EnsureCheckNoReturn(st, ps, fault) ==
    LET r == IsServerRunningForPath(ps, st.path, fault)
    IN  IF r.err # "ok" THEN Done(st, "pgrep")
        ELSE [st EXCEPT !.pc = "create", !.running = r.running]

\* the liveness check: when a server runs for the path, return nil at once
EnsureCheck(st, ps, fault) ==
    LET r == IsServerRunningForPath(ps, st.path, fault)
    IN  IF r.err # "ok" THEN Done(st, "pgrep")
        ELSE IF r.running THEN Done([st EXCEPT !.running = TRUE], "ok")
        ELSE [st EXCEPT !.pc = "create"]

\* os.Create(logFile)
EnsureCreateLog(st, fault) ==
    IF fault THEN Done(st, "log")
    ELSE [st EXCEPT !.pc = "start", !.log = TRUE]

\* a start that is skipped when a server for the path has appeared meanwhile
EnsureStartUnlessRunning(st, ps, pid, fault) ==
    IF fault THEN [st |-> Done(st, "start"), procs |-> ps, cmds |-> <<>>]
    ELSE IF \E q \in ps : MatchesServerPath(q.cmd, st.path)
    THEN [st |-> [st EXCEPT !.pc = "wait"], procs |-> ps, cmds |-> <<>>]
    ELSE [st |-> [st EXCEPT !.pc = "wait", !.pid = pid],
          procs |-> ps \cup {NewProcess(pid, CmdLine(st.path))},
          cmds |-> <<CmdLine(st.path)>>]

\* cmd.Start(): the server runs as a child that is not waited for
EnsureStart(st, ps, pid, fault) ==
    IF fault THEN [st |-> Done(st, "start"), procs |-> ps, cmds |-> <<>>]
    ELSE [st |-> [st EXCEPT !.pc = "wait", !.pid = pid],
          procs |-> ps \cup {NewProcess(pid, CmdLine(st.path))},
          cmds |-> <<CmdLine(st.path)>>]

\* WaitForServer(cfg.DefaultPort, 300) against the endpoint h
EnsureWait(st, h) ==
    LET w == WaitForServer(WaitStart(EnsureWaitSeconds), h)
    IN  Done([st EXCEPT !.polls = w.checks],
             IF w.result = "ready" THEN "ok" ELSE "timeout")


\* what the health endpoint answers now: the holder of the port decides
HealthNow(ps, holder) ==
    IF ~ \E q \in ps : q.pid = holder THEN "refused"
    ELSE IF (CHOOSE q \in ps : q.pid = holder).state = "ready" THEN "ok"
    ELSE "loading"

\* the checks at which a loading server may turn healthy during a wait
ReadyChecks == {5}

\* the endpoint during one wait: as it is now, or turning healthy at check k
WaitSchedule(now, k) ==
    IF now = "ok" THEN [listenFrom |-> 1, healthyAt |-> 1..EnsureWaitSeconds]
    ELSE IF now = "refused"
    THEN [listenFrom |-> EnsureWaitSeconds + 1, healthyAt |-> {}]
    ELSE IF k = 0 THEN [listenFrom |-> 1, healthyAt |-> {}]
    ELSE [listenFrom |-> 1, healthyAt |-> k..EnsureWaitSeconds]

InitOs ==
    /\ procs = {}
    /\ spawned = <<>>
    /\ port = 0
    /\ logs = {}

InitInv == inv = [i \in Invocations |-> Idle]

Resolve(i) ==
    /\ inv[i].pc = "idle"
    /\ \E slug \in SupSlugs, getFault \in BOOLEAN, touchFault \in BOOLEAN :
        LET r == EnsureResolve(inv[i], models, slug, clock, getFault, touchFault)
        IN  /\ ~ (getFault /\ touchFault)
            /\ inv' = [inv EXCEPT ![i] = r.st]
            /\ models' = r.rows
    /\ UNCHANGED <<clock, dirs, files, last, wait, health, proxy, kill, sigs>>
    /\ UNCHANGED osVars

Check(i) ==
    /\ inv[i].pc = "check"
    /\ \E fault \in BOOLEAN :
        inv' = [inv EXCEPT ![i] = [EnsureCheck(inv[i], procs, fault)
                                      EXCEPT !.before = Len(spawned)]]
    /\ UNCHANGED <<models, clock, dirs, files, last, wait, health, proxy, kill, sigs>>
    /\ UNCHANGED osVars

CreateLog(i) ==
    /\ inv[i].pc = "create"
    /\ \E fault \in BOOLEAN :
        /\ inv' = [inv EXCEPT ![i] = EnsureCreateLog(inv[i], fault)]
        /\ logs' = IF fault THEN logs ELSE logs \cup {LogFile(inv[i].slug)}
    /\ UNCHANGED <<models, clock, dirs, files, last, wait, health, proxy, kill, sigs>>
    /\ UNCHANGED <<procs, spawned, port>>

Start(i) ==
    /\ inv[i].pc = "start"
    /\ \E fault \in BOOLEAN :
        LET r == EnsureStart(inv[i], procs, Len(spawned) + 1, fault)
        IN  /\ inv' = [inv EXCEPT ![i] = r.st]
            /\ procs' = r.procs
            /\ spawned' = spawned \o r.cmds
    /\ UNCHANGED <<models, clock, dirs, files, last, wait, health, proxy, kill, sigs>>
    /\ UNCHANGED <<port, logs>>

\* the whole wait; a server that is loading may finish loading during it
Wait(i) ==
    /\ inv[i].pc = "wait"
    /\ \E k \in {0} \cup ReadyChecks :
        LET now == HealthNow(procs, port)
        IN  /\ k # 0 => now = "loading"
            /\ inv' = [inv EXCEPT ![i] = EnsureWait(inv[i], WaitSchedule(now, k))]
            /\ procs' = IF k = 0 THEN procs
                        ELSE {IF q.pid = port THEN [q EXCEPT !.state = "ready"] ELSE q
                              : q \in procs}
    /\ UNCHANGED <<models, clock, dirs, files, last, wait, health, proxy, kill, sigs>>
    /\ UNCHANGED <<spawned, port, logs>>

\* a started server binds the port, or exits when the port is taken
ProcBind ==
    /\ \E q \in procs :
        /\ q.state = "started"
        /\ IF port = 0
           THEN /\ port' = q.pid
                /\ procs' = (procs \ {q}) \cup {[q EXCEPT !.state = "loading"]}
           ELSE /\ port' = port
                /\ procs' = procs \ {q}
    /\ UNCHANGED <<models, clock, dirs, files, last, wait, health, proxy, kill, sigs>>
    /\ UNCHANGED <<spawned, logs, inv>>

\* a server that holds the port finishes loading its model
ProcReady ==
    /\ \E q \in procs :
        /\ q.state = "loading"
        /\ procs' = (procs \ {q}) \cup {[q EXCEPT !.state = "ready"]}
    /\ UNCHANGED <<models, clock, dirs, files, last, wait, health, proxy, kill, sigs>>
    /\ UNCHANGED <<spawned, port, logs, inv>>

\* a process ends on its own
ProcCrash ==
    /\ \E q \in procs :
        /\ procs' = procs \ {q}
        /\ port' = PortAfter(procs', port)
    /\ UNCHANGED <<models, clock, dirs, files, last, wait, health, proxy, kill, sigs>>
    /\ UNCHANGED <<spawned, logs, inv>>

NextSup ==
    \/ \E i \in Invocations : Resolve(i)
    \/ \E i \in Invocations : Check(i)
    \/ \E i \in Invocations : CreateLog(i)
    \/ \E i \in Invocations : Start(i)
    \/ \E i \in Invocations : Wait(i)
    \/ ProcBind
    \/ ProcReady
    \/ ProcCrash

----------------------------------------------------------------------------
(* internal/server: KillAll, one step per pgrep and per signal *)

KillIdle == [pc |-> "idle", scan1 |-> <<>>, scan2 |-> <<>>, k |-> 0, result |-> ""]

\* the first pgrep: an error other than "nothing found" fails the command
KillScan(kl, ps, fault) ==
    IF fault THEN [kl EXCEPT !.pc = "done", !.result = "pgrep"]
    ELSE IF PgrepServers(ps) = <<>> THEN [kl EXCEPT !.pc = "done", !.result = "ok"]
    ELSE [kl EXCEPT !.pc = "term", !.scan1 = PgrepServers(ps), !.k = 1]

\* a loop that gives up at the first signal that fails
KillSignalAbort(kl, ps, pids, sig, after) ==
    LET r == Signal(ps, pids[kl.k], sig)
    IN  [kill |-> IF kl.k = Len(pids) \/ ~ r.ok THEN [kl EXCEPT !.pc = after]
                  ELSE [kl EXCEPT !.k = @ + 1],
         procs |-> r.procs,
         sig |-> [pid |-> pids[kl.k], sig |-> sig, ok |-> r.ok]]

\* one turn of a signalling loop: signal the k-th pid, report a failure, go on
KillSignal(kl, ps, pids, sig, after) ==
    LET r == Signal(ps, pids[kl.k], sig)
    IN  [kill |-> IF kl.k = Len(pids) THEN [kl EXCEPT !.pc = after]
                  ELSE [kl EXCEPT !.k = @ + 1],
         procs |-> r.procs,
         sig |-> [pid |-> pids[kl.k], sig |-> sig, ok |-> r.ok]]

\* after the sleep of 2 seconds: the second pgrep, whose failure is ignored
KillRescan(kl, ps, fault) ==
    IF fault \/ PgrepServers(ps) = <<>> THEN [kl EXCEPT !.pc = "done", !.result = "ok"]
    ELSE [kl EXCEPT !.pc = "force", !.scan2 = PgrepServers(ps), !.k = 1]

\* the command lines of the processes KillAll may meet
OtherCmd == <<"s", "h">>

\* the process tables KillAll starts from: servers that handle SIGTERM or
\* ignore it, of this user or of another, beside a process that is no server
KillTables ==
    {t \cup {[NewProcess(NumProcs + 1, OtherCmd) EXCEPT !.state = "ready"]} :
        t \in {{[NewProcess(n, CmdLine(P_a)) EXCEPT !.state = "ready",
                    !.onTerm = f[n][1], !.owned = f[n][2]] : n \in 1..NumProcs} :
               f \in [1..NumProcs -> {"exit", "ignore"} \X BOOLEAN]}}

InitKill ==
    /\ kill = KillIdle
    /\ sigs = <<>>

InitOsKill ==
    /\ procs \in KillTables
    /\ spawned = [n \in 1..(NumProcs + 1) |->
                    IF n <= NumProcs THEN CmdLine(P_a) ELSE OtherCmd]
    /\ port = 0
    /\ logs = {}

KillAllScan ==
    /\ kill.pc = "idle"
    /\ \E fault \in BOOLEAN : kill' = KillScan(kill, procs, fault)
    /\ UNCHANGED <<models, clock, dirs, files, last, wait, health, proxy, inv, sigs>>
    /\ UNCHANGED osVars

KillAllTerm ==
    /\ kill.pc = "term"
    /\ LET r == KillSignal(kill, procs, kill.scan1, "TERM", "sleep")
       IN  /\ kill' = r.kill
           /\ procs' = r.procs
           /\ sigs' = Append(sigs, r.sig)
    /\ UNCHANGED <<models, clock, dirs, files, last, wait, health, proxy, inv>>
    /\ UNCHANGED <<spawned, port, logs>>

KillAllRescan ==
    /\ kill.pc = "sleep"
    /\ \E fault \in BOOLEAN : kill' = KillRescan(kill, procs, fault)
    /\ UNCHANGED <<models, clock, dirs, files, last, wait, health, proxy, inv, sigs>>
    /\ UNCHANGED osVars

KillAllForce ==
    /\ kill.pc = "force"
    /\ LET r == KillSignal(kill, procs, kill.scan2, "KILL", "done")
       IN  /\ kill' = [r.kill EXCEPT !.result = IF r.kill.pc = "done" THEN "ok" ELSE @]
           /\ procs' = r.procs
           /\ port' = PortAfter(r.procs, port)
           /\ sigs' = Append(sigs, r.sig)
    /\ UNCHANGED <<models, clock, dirs, files, last, wait, health, proxy, inv>>
    /\ UNCHANGED <<spawned, logs>>

\* a process that handles SIGTERM exits after it received one
ProcExit ==
    /\ \E q \in procs :
        /\ q.termed /\ q.onTerm = "exit"
        /\ procs' = procs \ {q}
        /\ port' = PortAfter(procs', port)
    /\ UNCHANGED <<models, clock, dirs, files, last, wait, health, proxy, kill, sigs>>
    /\ UNCHANGED <<spawned, logs, inv>>

\* someone starts another server while KillAll runs
ProcStart ==
    /\ Len(spawned) < NumProcs + 1 + MaxStarts
    /\ kill.pc # "done"
    /\ \E onTerm \in {"exit", "ignore"} :
        procs' = procs \cup {[NewProcess(Len(spawned) + 1, CmdLine(P_b))
                                 EXCEPT !.onTerm = onTerm]}
    /\ spawned' = Append(spawned, CmdLine(P_b))
    /\ UNCHANGED <<models, clock, dirs, files, last, wait, health, proxy, kill, sigs>>
    /\ UNCHANGED <<port, logs, inv>>

NextKill ==
    \/ KillAllScan
    \/ KillAllTerm
    \/ KillAllRescan
    \/ KillAllForce
    \/ ProcExit
    \/ ProcCrash
    \/ ProcStart

----------------------------------------------------------------------------------
(* internal/server: Kill, one step per pgrep and per signal *)

\* strconv.Atoi: an optional sign and decimal digits
Atoi(s) ==
    LET digits == IF s # <<>> /\ s[1] \in {"+", "-"} THEN Tail(s) ELSE s
        Val(c) == (CHOOSE i \in DOMAIN DigitSeq : DigitSeq[i] = c) - 1
        Num[k \in 0..Len(digits)] ==
            IF k = 0 THEN 0 ELSE 10 * Num[k - 1] + Val(digits[k])
    IN  IF digits = <<>> \/ \E k \in DOMAIN digits : digits[k] \notin Range(DigitSeq)
        THEN [ok |-> FALSE, n |-> 0]
        ELSE [ok |-> TRUE,
              n |-> IF s[1] = "-" THEN 0 - Num[Len(digits)] ELSE Num[Len(digits)]]

\* pgrep -f "llama-server.*<target>": the pids printed, in ascending order
PgrepTarget(ps, target) ==
    SortPids({q.pid : q \in {x \in ps : MatchesServerPath(x.cmd, target)}})

KillOneIdle ==
    [pc |-> "idle", target |-> <<>>, scan1 |-> <<>>, matched |-> {}, k |-> 0,
     result |-> ""]

\* Kill up to its loop: a number is signalled as a pid at once; any other
\* target is searched for, and a search that fails or finds nothing is an error
KillBegin(kl, ps, target, fault) ==
    LET a == Atoi(target)
        st == [kl EXCEPT !.target = target]
    IN  IF a.ok
        THEN LET r == Signal(ps, a.n, "TERM")
             IN  [kill |-> [st EXCEPT !.pc = "done",
                                      !.result = IF r.ok THEN "ok" ELSE "signal"],
                  procs |-> r.procs,
                  sigs |-> <<[pid |-> a.n, sig |-> "TERM", ok |-> r.ok]>>]
        ELSE LET found == [st EXCEPT !.matched = Range(PgrepTarget(ps, target))]
             IN  [kill |-> IF fault THEN [found EXCEPT !.pc = "done", !.result = "pgrep"]
                           ELSE IF PgrepTarget(ps, target) = <<>>
                           THEN [found EXCEPT !.pc = "done", !.result = "notfound"]
                           ELSE [found EXCEPT !.pc = "term", !.k = 1,
                                              !.scan1 = PgrepTarget(ps, target)],
                  procs |-> ps,
                  sigs |-> <<>>]

\* a loop that returns the error of the first signal that fails
KillOneSignalStrict(kl, ps) ==
    LET r == KillSignal(kl, ps, kl.scan1, "TERM", "done")
    IN  IF ~ r.sig.ok
        THEN [r EXCEPT !.kill = [kl EXCEPT !.pc = "done", !.result = "signal"]]
        ELSE [r EXCEPT !.kill.result = IF r.kill.pc = "done" THEN "ok" ELSE @]

\* one turn of the loop of Kill: SIGTERM to the k-th pid, a failure is printed
\* and the loop goes on; after the last pid Kill returns nil
KillOneSignal(kl, ps) ==
    LET r == KillSignal(kl, ps, kl.scan1, "TERM", "done")
    IN  [r EXCEPT !.kill.result = IF r.kill.pc = "done" THEN "ok" ELSE @]

\* the targets Kill is called with: a path fragment of the servers running at
\* the start, one of a server started later, one of no server, and two pids
KillTargets == {<<"a">>, <<"b">>, <<"z">>, <<"1">>, Itoa(NumProcs + 1)}

KillOneBegin ==
    /\ kill.pc = "idle"
    /\ \E target \in KillTargets, fault \in BOOLEAN :
        LET r == KillBegin(kill, procs, target, fault)
        IN  /\ fault => ~ Atoi(target).ok
            /\ kill' = r.kill
            /\ procs' = r.procs
            /\ sigs' = sigs \o r.sigs
    /\ UNCHANGED <<models, clock, dirs, files, last, wait, health, proxy, inv>>
    /\ UNCHANGED <<spawned, port, logs>>

KillOneTerm ==
    /\ kill.pc = "term"
    /\ LET r == KillOneSignal(kill, procs)
       IN  /\ kill' = r.kill
           /\ procs' = r.procs
           /\ sigs' = Append(sigs, r.sig)
    /\ UNCHANGED <<models, clock, dirs, files, last, wait, health, proxy, inv>>
    /\ UNCHANGED <<spawned, port, logs>>

NextKillOne ==
    \/ KillOneBegin
    \/ KillOneTerm
    \/ ProcExit
    \/ ProcCrash
    \/ ProcStart

----------------------------------------------------------------------------
(* encoding/json as the server code uses it: values without escape         *)
(* sequences, fractions or exponents, with the space as white space        *)

Quote == "\""

JsonFail == [ok |-> FALSE, val |-> [type |-> "none", v |-> <<>>], next |-> 0]

JsonOk(type, v, next) == [ok |-> TRUE, val |-> [type |-> type, v |-> v], next |-> next]

RECURSIVE SkipWs(_, _)
SkipWs(s, i) == IF i <= Len(s) /\ s[i] = " " THEN SkipWs(s, i + 1) ELSE i

RECURSIVE DigitsEnd(_, _)
DigitsEnd(s, i) ==
    IF i <= Len(s) /\ s[i] \in Range(DigitSeq) THEN DigitsEnd(s, i + 1) ELSE i

\* a string literal that opens at i
ParseString(s, i) ==
    LET closing == {j \in (i + 1)..Len(s) : s[j] = Quote}
        j == CHOOSE x \in closing : \A y \in closing : x <= y
    IN  IF closing = {} THEN JsonFail
        ELSE JsonOk("string", SubSeq(s, i + 1, j - 1), j + 1)

\* an integer that starts at i
ParseNumber(s, i) ==
    LET d == IF s[i] = "-" THEN i + 1 ELSE i
        e == DigitsEnd(s, d)
    IN  IF e = d \/ (e > d + 1 /\ s[d] = "0") THEN JsonFail
        ELSE JsonOk("number", SubSeq(s, i, e - 1), e)

ParseLiteral(s, i) ==
    IF LiteralAt(s, <<"t", "r", "u", "e">>, i) THEN JsonOk("true", <<>>, i + 4)
    ELSE IF LiteralAt(s, <<"f", "a", "l", "s", "e">>, i) THEN JsonOk("false", <<>>, i + 5)
    ELSE IF LiteralAt(s, <<"n", "u", "l", "l">>, i) THEN JsonOk("null", <<>>, i + 4)
    ELSE JsonFail

RECURSIVE ParseValue(_, _), ParseElems(_, _, _), ParseMembers(_, _, _)

\* the value that starts at i
ParseValue(s, i) ==
    IF i > Len(s) THEN JsonFail
    ELSE IF s[i] = Quote THEN ParseString(s, i)
    ELSE IF s[i] = "[" THEN
        IF SkipWs(s, i + 1) <= Len(s) /\ s[SkipWs(s, i + 1)] = "]"
        THEN JsonOk("array", <<>>, SkipWs(s, i + 1) + 1)
        ELSE ParseElems(s, SkipWs(s, i + 1), <<>>)
    ELSE IF s[i] = "{" THEN
        IF SkipWs(s, i + 1) <= Len(s) /\ s[SkipWs(s, i + 1)] = "}"
        THEN JsonOk("object", <<>>, SkipWs(s, i + 1) + 1)
        ELSE ParseMembers(s, SkipWs(s, i + 1), <<>>)
    ELSE IF s[i] \in Range(DigitSeq) \cup {"-"} THEN ParseNumber(s, i)
    ELSE ParseLiteral(s, i)

\* the elements of an array from i on, acc holding the ones before
ParseElems(s, i, acc) ==
    LET v == ParseValue(s, i)
        j == SkipWs(s, v.next)
    IN  IF ~ v.ok \/ j > Len(s) THEN JsonFail
        ELSE IF s[j] = "," THEN ParseElems(s, SkipWs(s, j + 1), Append(acc, v.val))
        ELSE IF s[j] = "]" THEN JsonOk("array", Append(acc, v.val), j + 1)
        ELSE JsonFail

\* the members of an object from i on, acc holding the ones before
ParseMembers(s, i, acc) ==
    LET k == IF i <= Len(s) /\ s[i] = Quote THEN ParseString(s, i) ELSE JsonFail
        c == SkipWs(s, k.next)
        v == ParseValue(s, SkipWs(s, c + 1))
        j == SkipWs(s, v.next)
        member == [key |-> k.val.v, val |-> v.val]
    IN  IF ~ k.ok \/ c > Len(s) THEN JsonFail
        ELSE IF s[c] # ":" \/ ~ v.ok \/ j > Len(s) THEN JsonFail
        ELSE IF s[j] = "," THEN ParseMembers(s, SkipWs(s, j + 1), Append(acc, member))
        ELSE IF s[j] = "}" THEN JsonOk("object", Append(acc, member), j + 1)
        ELSE JsonFail

\* json.Unmarshal: the whole text is one value
Unmarshal(s) ==
    LET v == ParseValue(s, SkipWs(s, 1))
    IN  IF v.ok /\ SkipWs(s, v.next) = Len(s) + 1 THEN v ELSE JsonFail

\* json.Decoder.Decode: the first value of the text
Decode(s) == ParseValue(s, SkipWs(s, 1))

\* json.Unmarshal into a map[string]interface{}: an object, or null
UnmarshalMap(s) ==
    LET v == Unmarshal(s)
    IN  IF v.ok /\ v.val.type \in {"object", "null"} THEN v ELSE JsonFail

\* m[key].(string): the last member of that name, when it is a string
StringField(val, key) ==
    LET at == IF val.type = "object"
              THEN {n \in DOMAIN val.v : val.v[n].key = key} ELSE {}
        n == CHOOSE x \in at : \A y \in at : y <= x
    IN  IF at # {} /\ val.v[n].val.type = "string"
        THEN [ok |-> TRUE, s |-> val.v[n].val.v]
        ELSE [ok |-> FALSE, s |-> <<>>]

\* json.Unmarshal into a []int: an array of integers, or null
UnmarshalInts(s) ==
    LET v == Unmarshal(s)
    IN  IF v.ok /\ v.val.type = "null" THEN v
        ELSE IF /\ v.ok /\ v.val.type = "array"
                /\ \A n \in DOMAIN v.val.v : v.val.v[n].type = "number"
        THEN v ELSE JsonFail

----------------------------------------------------------------------------
(* internal/server: the commands that talk to the server *)

DataMarker == <<"d", "a", "t", "a", ":", " ">>

ExitWord == <<"e", "x", "i", "t">>

ContentKey == <<"c", "o", "n", "t", "e", "n", "t">>

\* the instruction formatChatPrompt starts every prompt with
Instruction ==
    <<"A", " ", "c", "h", "a", "t", " ", "b", "e", "t", "w", "e", "e", "n",
      " ", "a", " ", "c", "u", "r", "i", "o", "u", "s", " ", "h", "u",
      "m", "a", "n", " ", "a", "n", "d", " ", "a", "n", " ", "a", "r",
      "t", "i", "f", "i", "c", "i", "a", "l", " ", "i", "n", "t", "e",
      "l", "l", "i", "g", "e", "n", "c", "e", " ", "a", "s", "s", "i",
      "s", "t", "a", "n", "t", ".", " ", "T", "h", "e", " ", "a", "s",
      "s", "i", "s", "t", "a", "n", "t", " ", "g", "i", "v", "e", "s",
      " ", "h", "e", "l", "p", "f", "u", "l", ",", " ", "d", "e", "t",
      "a", "i", "l", "e", "d", ",", " ", "a", "n", "d", " ", "p", "o",
      "l", "i", "t", "e", " ", "a", "n", "s", "w", "e", "r", "s", " ",
      "t", "o", " ", "t", "h", "e", " ", "h", "u", "m", "a", "n", "'",
      "s", " ", "q", "u", "e", "s", "t", "i", "o", "n", "s", ".">>

HumanTag == <<"\n", "#", "#", "#", " ", "H", "u", "m", "a", "n", ":", " ">>

AssistantTag == <<"\n", "#", "#", "#", " ", "A", "s", "s", "i", "s", "t", "a", "n", "t",
      ":", " ">>

\* the loop of formatChatPrompt from index i on (the code counts from 0)
RECURSIVE FormatTurns(_, _)
FormatTurns(history, i) ==
    IF i > Len(history) THEN <<>>
    ELSE HumanTag \o history[i]
         \o (IF i + 1 <= Len(history) THEN AssistantTag \o history[i + 1] ELSE <<>>)
         \o FormatTurns(history, i + 2)

formatChatPrompt(history) ==
    Instruction \o FormatTurns(history, 1)
                \o (IF Len(history) % 2 = 1 THEN AssistantTag ELSE <<>>)

\* strings.TrimSpace
RECURSIVE TrimSpace(_)
TrimSpace(s) ==
    IF s # <<>> /\ Head(s) \in {" ", "\n", "\t", "\r"} THEN TrimSpace(Tail(s))
    ELSE IF s # <<>> /\ s[Len(s)] \in {" ", "\n", "\t", "\r"}
    THEN TrimSpace(SubSeq(s, 1, Len(s) - 1))
    ELSE s

\* bufio.MaxScanTokenSize: a Scanner gives up on a line that does not fit
MaxScanTokenSize == 65536

\* a line of the response: its text, followed by pad spaces
Line(text, pad) == [text |-> text, pad |-> pad]

LineLen(l) == Len(l.text) + l.pad

\* scanner.Scan until it returns false: the lines it delivered and scanner.Err
RECURSIVE Scan(_)
Scan(stream) ==
    IF stream.lines = <<>>
    THEN [lines |-> <<>>, err |-> IF stream.broken THEN "read" ELSE "ok"]
    ELSE IF LineLen(Head(stream.lines)) >= MaxScanTokenSize
    THEN [lines |-> <<>>, err |-> "toolong"]
    ELSE LET rest == Scan([stream EXCEPT !.lines = Tail(@)])
         IN  [rest EXCEPT !.lines = <<Head(stream.lines)>> \o @]

\* a scan that does not look for the marker
LineContentUnmarked(l) ==
    LET data == IF HasPrefix(l.text, DataMarker)
                THEN SubSeq(l.text, Len(DataMarker) + 1, Len(l.text)) ELSE l.text
        m == UnmarshalMap(data)
    IN  IF m.ok THEN StringField(m.val, ContentKey).s ELSE <<>>

\* what one scanned line adds to the response: the string "content" of the
\* JSON object after the marker; the spaces that pad a line are white space
\* after the value
LineContent(l) ==
    IF HasPrefix(l.text, DataMarker)
    THEN LET m == UnmarshalMap(SubSeq(l.text, Len(DataMarker) + 1, Len(l.text)))
         IN  IF m.ok THEN StringField(m.val, ContentKey).s ELSE <<>>
    ELSE <<>>

\* fullResponse after the lines
RECURSIVE FullResponse(_)
FullResponse(lines) ==
    IF lines = <<>> THEN <<>>
    ELSE LineContent(Head(lines)) \o FullResponse(Tail(lines))

\* fmt.Errorf("API returned status %d: %s", resp.StatusCode, body)
StatusError(status, body) ==
    <<"A", "P", "I", " ", "r", "e", "t", "u", "r", "n", "e", "d", " ", "s",
      "t", "a", "t", "u", "s", " ">> \o Itoa(status) \o <<":", " ">> \o body
\* EnsureServerRunning from its first line to its return, for one caller.
\* fault names the call that fails; when the server is started and the port
\* is free it answers healthy from check readyAt on (0: never within the
\* wait), when the port is taken the child exits and the holder answers
EnsureFaults == {"none", "get", "touch", "pgrep", "log", "start"}

EnsureServerRunning(rows, ps, holder, started, slug, now, fault, readyAt) ==
    LET r == EnsureResolve(Idle, rows, slug, now, fault = "get", fault = "touch")
        c == EnsureCheck(r.st, ps, fault = "pgrep")
        l == EnsureCreateLog(c, fault = "log")
        s == EnsureStart(l, ps, started + 1, fault = "start")
        bound == holder = 0 /\ readyAt # 0
        after == IF holder # 0 THEN ps
                 ELSE IF bound
                 THEN ps \cup {[NewProcess(started + 1, CmdLine(l.path))
                                   EXCEPT !.state = "ready"]}
                 ELSE s.procs
        w == EnsureWait(s.st, IF bound THEN WaitSchedule("loading", readyAt)
                              ELSE WaitSchedule(HealthNow(ps, holder), 0))
        same == [st |-> r.st, rows |-> r.rows, procs |-> ps, port |-> holder,
                 cmds |-> <<>>, logs |-> {}]
    IN  IF r.st.pc = "done" THEN same
        ELSE IF c.pc = "done" THEN [same EXCEPT !.st = c]
        ELSE IF l.pc = "done" THEN [same EXCEPT !.st = l]
        ELSE IF s.st.pc = "done" THEN [same EXCEPT !.st = s.st, !.logs = {LogFile(slug)}]
        ELSE [st |-> w, rows |-> r.rows, procs |-> after,
              port |-> IF bound THEN started + 1 ELSE holder,
              cmds |-> s.cmds, logs |-> {LogFile(slug)}]

\* the commands that call EnsureServerRunning first, and the two that do not
EnsuringCmds == {"run", "chat", "embed", "tokenize", "detokenize"}

QueryCmds == {"health", "props"}

\* the path each command requests
Endpoint(cmd) ==
    CASE cmd \in {"run", "chat"} -> "/completion"
      [] cmd = "embed" -> "/embedding"
      [] cmd = "tokenize" -> "/tokenize"
      [] cmd = "detokenize" -> "/detokenize"
      [] cmd = "health" -> "/health"
      [] cmd = "props" -> "/props"

\* no reply has come for the request that was sent last
NoReply == [err |-> FALSE, status |-> 0, body |-> <<>>]

ProxyIdle ==
    [pc |-> "idle", cmd |-> "", arg |-> <<>>, ensured |-> "", requests |-> <<>>,
     history |-> <<>>, out |-> <<>>, result |-> "", msg |-> <<>>, reply |-> NoReply,
     nlines |-> 0]

Finish(px, result, msg) == [px EXCEPT !.pc = "done", !.result = result, !.msg = msg]

\* a command that requests whatever EnsureServerRunning returned
AfterEnsureAnyway(px, ensured) ==
    LET st == [px EXCEPT !.ensured = ensured]
    IN  IF px.cmd = "chat" THEN [st EXCEPT !.pc = "chat"]
        ELSE [st EXCEPT !.pc = "request"]

\* each command after EnsureServerRunning: its error is returned as it is;
\* Run without text is done, Detokenize parses its tokens, the others go on
\* to their request
AfterEnsure(px, ensured) ==
    LET st == [px EXCEPT !.ensured = ensured]
    IN  IF ensured # "ok" THEN Finish(st, "ensure", <<>>)
        ELSE IF px.cmd = "chat" THEN [st EXCEPT !.pc = "chat"]
        ELSE IF px.cmd = "run" /\ px.arg = <<>> THEN Finish(st, "ok", <<>>)
        ELSE IF px.cmd = "detokenize" /\ ~ UnmarshalInts(px.arg).ok
        THEN Finish(st, "parsing tokens", <<>>)
        ELSE [st EXCEPT !.pc = "request"]

\* a reply handling that takes every answer of the server for a result
ReceiveAnyStatus(px, resp) ==
    IF resp.err THEN Finish(px, "sending request", <<>>)
    ELSE IF ~ Decode(resp.body).ok THEN Finish(px, "parsing response", <<>>)
    ELSE Finish([px EXCEPT !.out = <<Decode(resp.body).val>>], "ok", <<>>)

\* Run, Embed, Tokenize, Detokenize, CheckHealth and GetProperties from the
\* reply on: a transport error, a status other than 200 with its body, a body
\* that is no JSON, or the result; Run prints the string "content", the others
\* print the value
Receive(px, resp) ==
    IF resp.err THEN Finish(px, "sending request", <<>>)
    ELSE IF resp.status # 200
    THEN Finish(px, "status", StatusError(resp.status, resp.body))
    ELSE IF ~ Decode(resp.body).ok THEN Finish(px, "parsing response", <<>>)
    ELSE IF px.cmd = "run"
    THEN LET content == StringField(Decode(resp.body).val, ContentKey)
         IN  Finish([px EXCEPT !.out = IF content.ok THEN <<content.s>> ELSE <<>>],
                    "ok", <<>>)
    ELSE Finish([px EXCEPT !.out = <<Decode(resp.body).val>>], "ok", <<>>)

\* a request as the server sees it; hist is the length of the transcript
Request(px, body) ==
    [path |-> Endpoint(px.cmd), body |-> body, hist |-> Len(px.history)]

\* a session that sends the request before it looks for the word exit
ChatReadEager(px, input) ==
    IF input.eof THEN Finish(px, "reading input", <<>>)
    ELSE LET history == Append(px.history, TrimSpace(input.text))
             st == [px EXCEPT !.history = history]
         IN  [st EXCEPT !.pc = IF TrimSpace(input.text) = ExitWord THEN "done" ELSE "stream",
                        !.result = IF TrimSpace(input.text) = ExitWord THEN "ok" ELSE @,
                        !.requests = Append(@, Request(st, formatChatPrompt(history)))]

\* the chat loop from the prompt to the request: a read error ends the
\* session, the word exit ends it, anything else is appended and sent
ChatRead(px, input) ==
    IF input.eof THEN Finish(px, "reading input", <<>>)
    ELSE IF TrimSpace(input.text) = ExitWord THEN Finish(px, "ok", <<>>)
    ELSE LET history == Append(px.history, TrimSpace(input.text))
             st == [px EXCEPT !.history = history]
         IN  [st EXCEPT !.pc = "stream",
                        !.requests = Append(@, Request(st, formatChatPrompt(history)))]

\* the chat loop from the reply to the next prompt: what was streamed is
\* printed as it comes, and appended to the history when the stream ended
\* without an error
ChatReceive(px, resp) ==
    IF resp.err THEN Finish(px, "sending request", <<>>)
    ELSE IF resp.status # 200
    THEN Finish(px, "status", StatusError(resp.status, resp.body))
    ELSE LET sc == Scan(resp.stream)
             printed == [px EXCEPT !.out = Append(@, FullResponse(sc.lines))]
         IN  IF sc.err # "ok" THEN Finish(printed, "reading stream", <<>>)
             ELSE [printed EXCEPT !.pc = "chat",
                                  !.history = Append(@, FullResponse(sc.lines))]

\* the inputs of the commands that talk to the server
ProxySlugs == {<<"a">>, <<"z">>}

T_hi == <<"h", "i">>

ProxyArgs(cmd) ==
    CASE cmd = "run" -> {<<>>, T_hi}
      [] cmd \in {"embed", "tokenize"} -> {T_hi}
      [] cmd = "detokenize" -> {<<"[", "1", ",", "2", "]">>, T_hi}
      [] OTHER -> {<<>>}

B_content == <<"{", Quote, "c", "o", "n", "t", "e", "n", "t", Quote, ":", Quote, "H", "i", Quote, "}">>
B_tokens == <<"{", Quote, "t", "o", "k", "e", "n", "s", Quote, ":", "[", "1", ",", "2", "]", "}">>
B_busy == <<"b", "u", "s", "y">>

\* what comes back for a request: no reply at all, or a status and a body
Replies ==
    {[err |-> TRUE, status |-> 0, body |-> <<>>]}
    \cup [err : {FALSE}, status : {200, 204, 404, 503},
          body : {B_content, B_tokens, B_busy, <<>>}]

\* the lines of a streamed reply: two fragments, a fragment cut short, a
\* fragment whose content is a number, an object without the marker, and a
\* fragment padded beyond what the Scanner takes
L_hi == Line(DataMarker \o B_content, 0)
L_there == Line(DataMarker \o <<"{", Quote, "c", "o", "n", "t", "e", "n", "t", Quote, ":", Quote, " ", "t", "h", "e", "r", "e", Quote, "}">>, 0)
L_cut == Line(DataMarker \o <<"{", Quote, "c", "o", "n", "t", "e", "n", "t", Quote, ":", Quote, "H", "i">>, 0)
L_num == Line(DataMarker \o <<"{", Quote, "c", "o", "n", "t", "e", "n", "t", Quote, ":", "7", "}">>, 0)
L_bare == Line(<<"{", Quote, "c", "o", "n", "t", "e", "n", "t", Quote, ":", Quote, "x", Quote, "}">>, 0)
L_long == Line(DataMarker \o B_content, MaxScanTokenSize)

ChatLines == {L_hi, L_there, L_cut, L_num, L_bare, L_long}

\* the streamed replies of up to n lines, ended by EOF or by a read error
Streams(n) ==
    [lines : UNION {[1..k -> ChatLines] : k \in 0..n}, broken : BOOLEAN]

\* what the user types, with the newline, or the end of the input
UserInputs ==
    {[text |-> t \o <<"\n">>, eof |-> FALSE] :
        t \in {T_hi, <<>>, ExitWord, <<" ">> \o ExitWord \o <<" ">>}}
    \cup {[text |-> ExitWord, eof |-> TRUE]}

InitProxy == proxy = ProxyIdle

\* a command is called: EnsureServerRunning, and what precedes the request
ProxyCall ==
    /\ proxy.pc = "idle"
    /\ \E cmd \in EnsuringCmds \cup QueryCmds :
       \E arg \in ProxyArgs(cmd) :
        LET px == [proxy EXCEPT !.cmd = cmd, !.arg = arg]
        IN  IF cmd \in QueryCmds
            THEN /\ proxy' = [px EXCEPT !.pc = "request"]
                 /\ UNCHANGED <<models, procs, spawned, port, logs>>
            ELSE \E slug \in ProxySlugs, fault \in EnsureFaults, readyAt \in {0, 5} :
                    LET e == EnsureServerRunning(models, procs, port, Len(spawned),
                                                 slug, clock, fault, readyAt)
                    IN  /\ proxy' = AfterEnsure(px, e.st.result)
                        /\ models' = e.rows
                        /\ procs' = e.procs
                        /\ port' = e.port
                        /\ spawned' = spawned \o e.cmds
                        /\ logs' = logs \cup e.logs
    /\ UNCHANGED <<clock, dirs, files, last, wait, health, inv, kill, sigs>>

\* http.Post or http.Get and the handling of the reply
ProxyRequest ==
    /\ proxy.pc = "request"
    /\ \E resp \in Replies :
        proxy' = Receive([proxy EXCEPT !.requests = Append(@, Request(proxy, proxy.arg)),
                                       !.reply = resp],
                         resp)
    /\ UNCHANGED <<models, clock, dirs, files, last, wait, health, inv, kill, sigs>>
    /\ UNCHANGED osVars

\* the user answers the prompt of the chat session
ChatInput ==
    /\ proxy.pc = "chat"
    /\ \E input \in UserInputs :
        /\ Len(proxy.history) < 2 * MaxTurns \/ ChatRead(proxy, input).pc = "done"
        /\ proxy' = ChatRead([proxy EXCEPT !.reply = NoReply], input)
    /\ UNCHANGED <<models, clock, dirs, files, last, wait, health, inv, kill, sigs>>
    /\ UNCHANGED osVars

\* the server answers the request of a chat turn; the session receives
\* MaxLines lines at most
ChatReply ==
    /\ proxy.pc = "stream"
    /\ \E resp \in Replies \cup [err : {FALSE}, status : {200},
                                  stream : Streams(MaxLines - proxy.nlines)] :
        /\ resp.status = 200 => "stream" \in DOMAIN resp
        /\ proxy' = ChatReceive([proxy EXCEPT
                                    !.reply = resp,
                                    !.nlines = IF "stream" \in DOMAIN resp
                                               THEN @ + Len(resp.stream.lines) ELSE @],
                                resp)
    /\ UNCHANGED <<models, clock, dirs, files, last, wait, health, inv, kill, sigs>>
    /\ UNCHANGED osVars

NextProxy ==
    \/ ProxyCall
    \/ ProxyRequest
    \/ ChatInput
    \/ ChatReply

\* a pull that looks at every manifest the hub may return
F_q4caps == <<"M", ".", "Q", "4", "_", "K", "_", "M", ".", "G", "G", "U", "F">>
F_sub == <<"d", "/", "n", "-", "q", "4", "_", "k", "_", "m", ".", "g", "g", "u", "f">>

PullManifests ==
    {<<F_readme, F_q4up, F_q4low>>, <<F_f16, F_q4low, F_readme>>,
     <<F_readme, F_f16>>, <<F_q4caps>>, <<F_sub, F_q4low>>}

PullEnvsWide ==
    {[PullOk EXCEPT !.manifest = m] : m \in PullManifests}
    \cup {[PullOk EXCEPT !.http = "status"],
          [PullOk EXCEPT !.download = "fail"],
          [PullOk EXCEPT !.download = "missing"],
          [PullOk EXCEPT !.dbFault = TRUE]}

CmdPullWide ==
    \E id \in {ID_ab, ID_bad}, env \in PullEnvsWide :
        LET r == Pull(models, dirs, files, clock, id, env)
        IN  /\ models' = r.rows
            /\ dirs' = r.dirs
            /\ files' = r.files
            /\ last' = Event("pull", <<id, env>>, r.err, generateSlug(id) \in Slugs(models))
            /\ UNCHANGED clock
            /\ UNCHANGED otherVars

NextPull == \/ CmdPullWide \/ Tick

\* the identifiers generateSlug is applied to: every string of up to MaxIdLen
\* characters, one character of each kind the two patterns tell apart
IdChars == {"a", "B", "1", "_", "-", ".", "/"}

Identifiers == UNION {[1..n -> IdChars] : n \in 1..MaxIdLen}

\* generateSlug is called on the identifier, for the first time or once more
SlugCall ==
    /\ last.op \in {"identifier", "generateSlug"}
    /\ last.op = "generateSlug" => last.args[3] < 2
    /\ last' = Event("generateSlug",
                     <<last.args[1], generateSlug(last.args[1]),
                       IF last.op = "generateSlug" THEN last.args[3] + 1 ELSE 1>>,
                     IF validateModelID(last.args[1]) THEN "ok" ELSE "invalid",
                     last.pre)
    /\ UNCHANGED <<models, clock, dirs, files>>
    /\ UNCHANGED otherVars

----------------------------------------------------------------------------
(* ImportExisting over trees of model files *)

\* the files a models directory holds before an import: a model two levels
\* down and a second file beside it, a model one level down with an
\* upper-case extension, a model in a directory whose name is the slug of the
\* first, a file directly in the root and a file that is no model
P_nested == Join(Join(ModelsDir, ID_ab), F_q4low)
P_beside == Join(Join(ModelsDir, ID_ab), F_f16)
P_flat   == Join(Join(ModelsDir, <<"c">>), <<"x", ".", "G", "G", "U", "F">>)
P_dash   == Join(Join(ModelsDir, generateSlug(ID_ab)), F_q4low)
P_top    == Join(ModelsDir, F_f16)
P_readme == Join(Join(ModelsDir, ID_ab), F_readme)

ImportFiles == {P_nested, P_beside, P_flat, P_dash, P_top, P_readme}

NextImport == CmdImport \/ Tick

----------------------------------------------------------------------------
(* cmd/gguf: run, the command dispatcher *)

Help == "--help"

\* the commands whose case starts with len(args) < 1, with len(args) < 2, and
\* the ones that test len(args) > 0 && args[0] == "--help"
NeedOne  == {"pull", "rm", "run", "chat", "kill"}
NeedTwo  == {"alias", "embed", "tokenize", "detokenize"}
Optional == {"import", "reset", "health", "props", "ps", "recent", "trending"}

Subcommands == NeedOne \cup NeedTwo \cup Optional \cup {"ls"}

\* the function a case ends in
Callee(cmd, args) ==
    CASE cmd = "pull"       -> "model.Pull"
      [] cmd = "ls"         -> "model.List"
      [] cmd = "rm"         -> "model.Remove"
      [] cmd = "alias"      -> "model.Alias"
      [] cmd = "import"     -> "model.ImportExisting"
      [] cmd = "reset"      -> "model.ResetDB"
      [] cmd = "run"        -> "server.Run"
      [] cmd = "chat"       -> "server.Chat"
      [] cmd = "embed"      -> "server.Embed"
      [] cmd = "tokenize"   -> "server.Tokenize"
      [] cmd = "detokenize" -> "server.Detokenize"
      [] cmd = "health"     -> "server.CheckHealth"
      [] cmd = "props"      -> "server.GetProperties"
      [] cmd = "ps"         -> "server.ListProcesses"
      [] cmd = "kill"       -> IF args[1] = "all" THEN "server.KillAll"
                               ELSE "server.Kill"
      [] cmd = "recent"     -> "model.GetRecent"
      [] cmd = "trending"   -> "model.GetTrending"

Route(print, err, call) == [print |-> print, err |-> err, call |-> call]

\* run: what is printed, the error returned before any call, and the function
\* the switch hands over to (os.Args[1:] is argv)
run(argv) ==
    IF argv = <<>> THEN Route("usage", "ok", "none")
    ELSE LET cmd  == Head(argv)
             args == Tail(argv)
         IN  IF cmd \in NeedOne
             THEN IF Len(args) < 1 THEN Route("none", "missing", "none")
                  ELSE IF args[1] = Help THEN Route("help", "ok", "none")
                  ELSE Route("none", "ok", Callee(cmd, args))
             ELSE IF cmd \in NeedTwo
             THEN IF Len(args) < 2 THEN Route("none", "missing", "none")
                  ELSE IF args[1] = Help THEN Route("help", "ok", "none")
                  ELSE Route("none", "ok", Callee(cmd, args))
             ELSE IF cmd \in Optional
             THEN IF Len(args) > 0 /\ args[1] = Help
                  THEN Route("help", "ok", "none")
                  ELSE Route("none", "ok", Callee(cmd, args))
             ELSE IF cmd = "ls" THEN Route("none", "ok", Callee(cmd, args))
             ELSE Route("usage", "unknown", "none")

\* the command lines: no command, every command and an unknown one, alone,
\* with --help, and with --help and one more word
ArgLists == {<<>>, <<Help>>, <<Help, "x">>}
Argvs == {<<>>} \cup {<<c>> \o a : c \in Subcommands \cup {"frob"}, a \in ArgLists}

\* the calls that need a server or the hub to answer
Remote == {"server.CheckHealth", "server.GetProperties",
           "model.GetRecent", "model.GetTrending"}

\* one invocation of the program: with these command lines the calls that
\* are reached and change anything are ImportExisting and ResetDB
CliRun ==
    \E argv \in Argvs, answered \in BOOLEAN :
        LET d == run(argv)
            r == IF d.call = "model.ImportExisting"
                 THEN ImportExisting(models, dirs, files, clock, {}, {})
                 ELSE IF d.call = "model.ResetDB"
                 THEN ResetDB(models, dirs, files, clock, "none", {}, {})
                 ELSE [err |-> IF d.call \in Remote /\ ~answered
                               THEN "upstream" ELSE d.err,
                       rows |-> models]
        IN  /\ d.call \notin Remote => answered
            /\ models' = r.rows
            /\ last' = Event("run", <<argv, d.print, d.call>>, r.err, models # {})
            /\ UNCHANGED <<clock, dirs, files>>
            /\ UNCHANGED otherVars

NextCli == CliRun \/ Tick

----------------------------------------------------------------------------
(* rm and alias on imported models *)

NextRm == CmdImport \/ CmdRemove \/ Tick

NextAlias == CmdImport \/ CmdAlias \/ Tick

----------------------------------------------------------------------
(* The specifications *)

\* a WaitForServer call that is not running
InitWaitIdle ==
    /\ wait = [WaitStart(EnsureWaitSeconds) EXCEPT !.result = "idle"]
    /\ health = WaitSchedule("refused", 0)

Init == InitStore /\ InitWaitIdle /\ InitOs /\ InitInv /\ InitKill /\ InitProxy

\* Spec: the store operations and the commands built on them
Next ==
    \/ StoreAddModel
    \/ StoreUpdateModelSlug
    \/ StoreRemoveModel
    \/ StoreUpdateModelLastUsed
    \/ CmdPull
    \/ CmdRemove
    \/ CmdAlias
    \/ CmdImport
    \/ CmdReset

Spec == Init /\ [][Next]_vars

\* SpecStore: the store operations alone, over time
NextStore ==
    \/ Tick
    \/ StoreAddModel
    \/ StoreUpdateModelSlug
    \/ StoreRemoveModel
    \/ StoreUpdateModelLastUsed

SpecStore == Init /\ [][NextStore]_vars

\* SpecWait: one WaitForServer call against a given health endpoint
InitPolling == InitStore /\ InitWait /\ InitOs /\ InitInv /\ InitKill /\ InitProxy

SpecWait == InitPolling /\ [][WaitTick]_vars

\* the polling loop is sequential code: it runs on until it returns
SpecWaitFair == SpecWait /\ WF_vars(WaitTick)

\* SpecSup: two invocations of EnsureServerRunning side by side
InitSup ==
    /\ models = SupModels
    /\ clock = 2
    /\ dirs = {ModelsDir}
    /\ files = [f \in {P_a, P_b} |-> FileSize]
    /\ last = Event("init", <<>>, "ok", FALSE)
    /\ InitWaitIdle /\ InitOs /\ InitInv /\ InitKill /\ InitProxy

SpecSup == InitSup /\ [][NextSup]_vars

\* SpecKill: one KillAll call among processes that exit and start
InitKillAll == InitStore /\ InitWaitIdle /\ InitOsKill /\ InitInv /\ InitKill /\ InitProxy

SpecKill == InitKillAll /\ [][NextKill]_vars

\* SpecKillOne: one Kill call among processes that exit and start
InitKillOne ==
    /\ InitStore /\ InitWaitIdle /\ InitOsKill /\ InitInv
    /\ kill = KillOneIdle
    /\ sigs = <<>>
    /\ InitProxy

SpecKillOne == InitKillOne /\ [][NextKillOne]_vars

\* SpecProxy: one command that talks to the server, with no server running
\* or with the server of model a running
InitProxySpec ==
    /\ models = SupModels
    /\ clock = 2
    /\ dirs = {ModelsDir}
    /\ files = [f \in {P_a, P_b} |-> FileSize]
    /\ last = Event("init", <<>>, "ok", FALSE)
    /\ InitWaitIdle /\ InitInv /\ InitKill /\ InitProxy
    /\ logs = {}
    /\ \E up \in BOOLEAN :
        /\ procs = IF up THEN {[NewProcess(1, CmdLine(P_a)) EXCEPT !.state = "ready"]}
                   ELSE {}
        /\ spawned = IF up THEN <<CmdLine(P_a)>> ELSE <<>>
        /\ port = IF up THEN 1 ELSE 0

SpecProxy == InitProxySpec /\ [][NextProxy]_vars

\* SpecPull: pull against every manifest, over time
SpecPull == Init /\ [][NextPull]_vars

\* SpecSlug: generateSlug on every identifier
InitSlug ==
    /\ models = {}
    /\ clock = 1
    /\ dirs = {ModelsDir}
    /\ files = << >>
    /\ \E id \in Identifiers :
        last = Event("identifier", <<id>>, "ok", validateModelID(id))
    /\ InitWaitIdle /\ InitOs /\ InitInv /\ InitKill /\ InitProxy

SpecSlug == InitSlug /\ [][SlugCall]_vars

\* SpecImport: ImportExisting on a models directory that already holds files
InitImport ==
    /\ models = {}
    /\ clock = 1
    /\ \E F \in SUBSET ImportFiles :
        /\ files = [f \in F |-> FileSize]
        /\ dirs = {ModelsDir} \cup UNION {Ancestors(Dir(f)) : f \in F}
    /\ last = Event("init", <<>>, "ok", FALSE)
    /\ InitWaitIdle /\ InitOs /\ InitInv /\ InitKill /\ InitProxy

SpecImport == InitImport /\ [][NextImport]_vars

\* SpecCli: the program invoked with each command line, over the model trees
SpecCli == InitImport /\ [][NextCli]_vars

\* SpecRm: import and rm over the model trees
SpecRm == InitImport /\ [][NextRm]_vars

\* SpecAlias: import and alias over the model trees
SpecAlias == InitImport /\ [][NextAlias]_vars

----------------------------------------------------------------------
(* The metadata store *)

\* C1: in every state reached by the store operations and the commands built
\* on them, no two rows of the store share a slug.
C1_SlugUnique ==
    \A r1, r2 \in models : r1.slug = r2.slug => r1 = r2

\* two hub identifiers that map to one slug were both pulled, the second onto
\* the row of the first, beside a row under another slug
C1_Witness ==
    /\ last.op = "pull" /\ last.err = "ok" /\ last.pre
    /\ last.args[1] = ID_Ab
    /\ Join(Join(ModelsDir, ID_ab), F_q4up) \in DOMAIN files
    /\ Cardinality(models) = 2

\* C2: a rename of a present slug to an absent one succeeds (the database
\* working); the row is then found under the new slug with every other field
\* as before, the old slug is not found, and the other rows are as before.
C2_RenameMovesRecord ==
    [][(/\ last'.op = "UpdateModelSlug"
        /\ last'.err # "db"
        /\ last'.args[1] \in Slugs(models)
        /\ last'.args[2] \notin Slugs(models))
       => LET old == last'.args[1]
              new == last'.args[2]
              rec == GetModelBySlug(models, old, FALSE).model
              got == GetModelBySlug(models', new, FALSE)
          IN  /\ last'.err = "ok"
              /\ got.err = "ok"
              /\ got.model.slug = new
              /\ got.model.model_id = rec.model_id
              /\ got.model.file_name = rec.file_name
              /\ got.model.file_path = rec.file_path
              /\ got.model.file_size = rec.file_size
              /\ got.model.created_at = rec.created_at
              /\ got.model.last_used = rec.last_used
              /\ GetModelBySlug(models', old, FALSE).err = "notfound"
              /\ {r \in models' : r.slug # new} = {r \in models : r.slug # old}
      ]_vars

\* a row that had been used was renamed, beside another row
C2_Witness ==
    /\ last.op = "UpdateModelSlug" /\ last.err = "ok"
    /\ last.args[1] # last.args[2]
    /\ \E r \in models : r.slug = last.args[2] /\ r.last_used # NULL
    /\ last.args[1] \notin Slugs(models)

\* C3: removing an absent slug fails not-found and leaves the store as it was;
\* removing a present slug succeeds (the database working), after which neither
\* get nor list returns the slug and the other rows are as before.
C3_Remove ==
    [][(last'.op = "RemoveModel" /\ last'.err # "db")
       => LET slug == last'.args[1]
          IN  IF slug \notin Slugs(models)
              THEN last'.err = "notfound" /\ models' = models
              ELSE /\ last'.err = "ok"
                   /\ GetModelBySlug(models', slug, FALSE).err = "notfound"
                   /\ \A l \in GetAllModels(models') :
                          \A i \in DOMAIN l : l[i].slug # slug
                   /\ GetAllModels(models') # {}
                   /\ models' = {r \in models : r.slug # slug}
      ]_vars

\* a present slug was removed and another row is still listed
C3_Witness ==
    /\ last.op = "RemoveModel" /\ last.err = "ok" /\ last.pre
    /\ models # {}
    /\ last.args[1] \notin Slugs(models)

\* C4: after an upsert (the database working), get of the slug returns a row
\* whose slug, model_id, file_name, file_path and file_size are the arguments
\* of the upsert, whether or not the slug was there before.
C4_UpsertRoundTrip ==
    (last.op = "AddModel" /\ last.err # "db")
    => LET got == GetModelBySlug(models, last.args[1], FALSE)
       IN  /\ last.err = "ok"
           /\ got.err = "ok"
           /\ got.model.slug = last.args[1]
           /\ got.model.model_id = last.args[2]
           /\ got.model.file_name = last.args[3]
           /\ got.model.file_path = last.args[4]
           /\ got.model.file_size = last.args[5]

\* an upsert onto a slug that was there, at a later second
C4_Witness ==
    /\ last.op = "AddModel" /\ last.err = "ok" /\ last.pre
    /\ \E r \in models : r.slug = last.args[1] /\ r.created_at = MaxClock

\* C5 as stated: after rm, whichever step failed, the record of the slug is
\* never left behind without its file.
C5_NoOrphanedRecord ==
    (last.op = "rm" /\ last.pre)
    => \A r \in models : r.slug = last.args[1] => r.file_path \in DOMAIN files

\* C5 as the code has it: rm deletes the file first and the record second. When
\* the file cannot be deleted nothing changes; when the record cannot be
\* deleted after the file was, the record stays without its file; the record
\* is never deleted while its file stays.
C5_FileFirstRecordSecond ==
    [][(last'.op = "rm" /\ last'.args[1] \in Slugs(models))
       => LET slug == last'.args[1]
              rec  == GetModelBySlug(models, slug, FALSE).model
          IN  /\ last'.err = "file"
                  => models' = models /\ files' = files /\ dirs' = dirs
              /\ (last'.err = "db" /\ last'.args[2] = "third")
                  => /\ models' = models
                     /\ ~ Exists(dirs', files', rec.file_path)
              /\ models' # models
                  => /\ last'.err = "ok"
                     /\ models' = models \ {rec}
                     /\ ~ Exists(dirs', files', rec.file_path)
      ]_vars

\* the file of a pulled model was deleted and its record could not be
C5_Witness ==
    /\ last.op = "rm" /\ last.err = "db" /\ last.pre
    /\ \E r \in models : r.slug = last.args[1] /\ r.file_path \notin DOMAIN files

----------------------------------------------------------------------------
(* EnsureServerRunning *)

\* the invocation got past cmd.Start
Started(i) ==
    \/ inv[i].pc = "wait"
    \/ inv[i].pc = "done" /\ inv[i].result \in {"ok", "timeout"} /\ ~ inv[i].running

\* C6: invocations of EnsureServerRunning do not exclude one another: every
\* invocation whose liveness check answered "not running" and whose cmd.Start
\* succeeded has launched a server process of its own for its model path on
\* port 1966, whatever the other invocations did between its check and its
\* start; two invocations for one model can so both launch one.
C6_NoMutualExclusion ==
    /\ \A i \in Invocations :
        Started(i) =>
            /\ inv[i].pid \in 1..Len(spawned)
            /\ inv[i].pid > inv[i].before
            /\ spawned[inv[i].pid] = CmdLine(inv[i].path)
            /\ HasSuffix(spawned[inv[i].pid], <<" ">> \o Itoa(DefaultPort))
            /\ inv[i].log
    /\ \A i, j \in Invocations :
        (Started(i) /\ Started(j) /\ i # j) => inv[i].pid # inv[j].pid
    /\ Len(spawned) = Cardinality({i \in Invocations : Started(i)})

\* both invocations are for the slug "a", both checked before either had
\* spawned, and two servers for the same path and port are running
C6_Witness ==
    /\ \A i \in Invocations :
        /\ inv[i].slug = <<"a">> /\ inv[i].before = 0 /\ ~ inv[i].running
        /\ inv[i].pc = "wait"
        /\ \E q \in procs : q.pid = inv[i].pid /\ q.cmd = CmdLine(P_a)
    /\ Len(spawned) = 2
    /\ spawned[1] = spawned[2]

\* C7: an invocation whose liveness check found a server process for the
\* record's file path has returned nil at once: it launched no process,
\* created no log file and polled the health endpoint not once.
C7_RunningIsNoOp ==
    \A i \in Invocations :
        inv[i].running =>
            /\ inv[i].pc = "done" /\ inv[i].result = "ok"
            /\ inv[i].pid = 0
            /\ ~ inv[i].log
            /\ inv[i].polls = 0

\* one invocation launched the server, the other one found it and returned
C7_Witness ==
    \E i, j \in Invocations :
        /\ inv[i].running /\ inv[i].pc = "done" /\ inv[i].before = 1
        /\ inv[j].pid = 1 /\ inv[j].path = inv[i].path
        /\ Len(spawned) = 1
        /\ \E q \in procs : MatchesServerPath(q.cmd, inv[i].path)

----------------------------------------------------------------------------
(* Readiness polling *)

\* the first check the endpoint answers healthy, 0 when it never does
FirstHealthy ==
    IF health.healthyAt = {} THEN 0
    ELSE CHOOSE k \in health.healthyAt : \A j \in health.healthyAt : k <= j

\* C8: when the health endpoint answers healthy for the first time on the k-th
\* check, 1 <= k <= budget, the wait reports ready on the k-th check (after
\* k - 1 sleeps of one second) and on no earlier one.
C8_ReadyOnFirstHealthyCheck ==
    /\ wait.result = "ready"
        => /\ FirstHealthy \in 1..wait.N
           /\ wait.checks = FirstHealthy
           /\ wait.sleeps = FirstHealthy - 1
    /\ (FirstHealthy \in 1..wait.N /\ wait.result = "polling")
        => wait.checks < FirstHealthy
    /\ (FirstHealthy \in 1..wait.N /\ wait.result # "polling")
        => wait.result = "ready"

\* called as ensure_running calls it, against a server that answers 503 while
\* it loads and healthy on the 5th check only: ready on the 5th check
C8_Witness ==
    /\ wait.N = EnsureWaitSeconds
    /\ health.healthyAt = {5} /\ health.listenFrom = 3
    /\ wait.result = "ready" /\ wait.checks = 5

\* C9: polling terminates; against a server that is never healthy within the
\* budget N it makes exactly N checks, one per second, and then returns the
\* timeout error, never ready; it never makes more than N checks.
C9_PollingTerminates ==
    /\ [](/\ wait.checks <= wait.N
          /\ wait.sleeps <= wait.checks
          /\ (FirstHealthy \notin 1..wait.N)
              => /\ wait.result # "ready"
                 /\ wait.result = "polling" => wait.checks < wait.N
                 /\ wait.result = "timeout"
                     => wait.checks = wait.N /\ wait.sleeps = wait.N)
    /\ <>(wait.result # "polling")

\* 300 checks against a server that never answered healthy, then the timeout
C9_Witness ==
    /\ wait.N = EnsureWaitSeconds
    /\ health.healthyAt = {}
    /\ wait.result = "timeout" /\ wait.checks = EnsureWaitSeconds

----------------------------------------------------------------------------
(* KillAll *)

\* the pids that were sent the signal, in the order of sending
SentTo(sig) ==
    LET Is(e) == e.sig = sig
        sent == SelectSeq(sigs, Is)
    IN  [k \in 1..Len(sent) |-> sent[k].pid]

\* C10: KillAll sends SIGTERM to every pid of the first pgrep and to no other,
\* then, after the sleep, runs the second pgrep and sends SIGKILL to every pid
\* it prints and to no other; no SIGTERM follows a SIGKILL, so a process that
\* is in both lists got SIGTERM strictly before SIGKILL; once the first pgrep
\* has found a process KillAll returns nil, signals that failed included.
C10_TermThenKill ==
    /\ \A a, b \in 1..Len(sigs) :
        (a < b) => ~ (sigs[a].sig = "KILL" /\ sigs[b].sig = "TERM")
    /\ kill.pc \in {"sleep", "force"} => SentTo("TERM") = kill.scan1
    /\ kill.pc \in {"idle", "term", "sleep"} => SentTo("KILL") = <<>>
    /\ kill.pc = "done" =>
        /\ SentTo("TERM") = kill.scan1
        /\ SentTo("KILL") = kill.scan2
        /\ kill.scan1 # <<>> => kill.result = "ok"
        /\ kill.result # "ok" => sigs = <<>>
    /\ \A p \in Range(kill.scan1) \cap Range(kill.scan2) :
        kill.pc = "done" =>
            \E a, b \in 1..Len(sigs) :
                /\ a < b
                /\ sigs[a].pid = p /\ sigs[a].sig = "TERM"
                /\ sigs[b].pid = p /\ sigs[b].sig = "KILL"

\* a server that ignores SIGTERM got both signals in order, a signal to
\* another process failed, and KillAll returned nil
C10_Witness ==
    /\ kill.pc = "done" /\ kill.result = "ok"
    /\ \E a, b \in 1..Len(sigs) :
        /\ a < b
        /\ sigs[a].pid = sigs[b].pid
        /\ sigs[a].sig = "TERM" /\ sigs[a].ok
        /\ sigs[b].sig = "KILL" /\ sigs[b].ok
    /\ \E c \in 1..Len(sigs) : ~ sigs[c].ok

----------------------------------------------------------------------------
(* Kill *)

\* C11 as stated: Kill with a target that is no number fails only when the
\* search matches no process.
C11_FailsOnlyWhenNoMatch ==
    (kill.pc = "done" /\ ~ Atoi(kill.target).ok /\ kill.result # "ok")
        => kill.matched = {}

\* C11: Kill with a target that is no number sends SIGTERM to every pid the
\* search printed, in order, a signal that fails neither stops the loop nor
\* fails the command; it returns an error, having sent no signal, only when
\* the search printed no pid or pgrep itself failed.
C11_SignalsEveryMatch ==
    ~ Atoi(kill.target).ok =>
        /\ kill.pc = "term" =>
            /\ kill.scan1 # <<>>
            /\ SentTo("TERM") = SubSeq(kill.scan1, 1, kill.k - 1)
        /\ kill.pc = "done" =>
            /\ SentTo("TERM") = kill.scan1
            /\ kill.scan1 # <<>> => kill.result = "ok"
            /\ kill.result = "ok" => kill.scan1 # <<>>
            /\ kill.result # "ok" =>
                /\ sigs = <<>>
                /\ kill.result \in {"notfound", "pgrep"}
                /\ kill.result = "notfound" => kill.matched = {}
        /\ SentTo("KILL") = <<>>

\* the signal to one matched pid failed, a later pid was signalled all the
\* same, and Kill returned nil
C11_Witness ==
    /\ kill.pc = "done" /\ kill.result = "ok" /\ kill.target = <<"a">>
    /\ \E a, b \in 1..Len(sigs) : a < b /\ ~ sigs[a].ok /\ sigs[b].ok

----------------------------------------------------------------------------
(* The commands that talk to the server *)

\* C12: Run with a text, Chat, Embed, Tokenize and Detokenize send no request
\* unless EnsureServerRunning returned nil before, and return its error
\* without a request when it failed; CheckHealth and GetProperties never call
\* EnsureServerRunning, start no process, create no log file and leave the
\* store as it is.
C12_EnsureBeforeRequest ==
    /\ [](proxy.cmd \in EnsuringCmds =>
            /\ proxy.requests # <<>> => proxy.ensured = "ok"
            /\ proxy.ensured # "ok" =>
                /\ proxy.pc = "done" /\ proxy.result = "ensure"
                /\ proxy.requests = <<>> /\ proxy.out = <<>>)
    /\ [](proxy.cmd \in QueryCmds => proxy.ensured = "")
    /\ [][proxy'.cmd \in QueryCmds =>
            UNCHANGED <<models, procs, spawned, port, logs>>]_vars

\* embed started the server, waited until it was healthy and then sent its
\* one request
C12_Witness ==
    /\ proxy.cmd = "embed" /\ proxy.ensured = "ok" /\ proxy.result = "ok"
    /\ Len(proxy.requests) = 1 /\ proxy.requests[1].path = "/embedding"
    /\ Len(spawned) = 1 /\ port = 1
    /\ \E r \in models : r.slug = <<"a">> /\ r.last_used = clock

\* the line starts with the marker "data: "
Marked(l) ==
    /\ Len(l.text) >= Len(DataMarker)
    /\ \A k \in DOMAIN DataMarker : l.text[k] = DataMarker[k]

\* the text of a marked line after the marker
Payload(l) == [k \in 1..(Len(l.text) - Len(DataMarker)) |-> l.text[k + Len(DataMarker)]]

\* the string "content" of a marked line that carries well-formed JSON
Contribution(l) ==
    IF Marked(l) /\ Unmarshal(Payload(l)).ok
    THEN StringField(Unmarshal(Payload(l)).val, ContentKey).s
    ELSE <<>>

\* the contributions of the lines, in order
RECURSIVE Expected(_)
Expected(lines) ==
    IF lines = <<>> THEN <<>>
    ELSE Expected(SubSeq(lines, 1, Len(lines) - 1)) \o Contribution(lines[Len(lines)])

\* the lines in front of the first one that a Scanner does not take
RECURSIVE Scannable(_)
Scannable(lines) ==
    IF lines = <<>> \/ LineLen(Head(lines)) >= MaxScanTokenSize THEN <<>>
    ELSE <<Head(lines)>> \o Scannable(Tail(lines))

\* a reply with status 200 has been streamed to the chat session
Streamed == proxy.cmd = "chat" /\ "stream" \in DOMAIN proxy.reply

\* C13 as stated: whatever lines the reply consists of, the assistant text is
\* the concatenation of the contributions of its lines, and the transcript
\* has grown by exactly one assistant entry.
C13_AnyLines ==
    (Streamed /\ ~ proxy.reply.stream.broken) =>
        /\ Len(proxy.history) = proxy.requests[Len(proxy.requests)].hist + 1
        /\ proxy.history[Len(proxy.history)] = Expected(proxy.reply.stream.lines)

\* C13: when every line of the reply is shorter than 64 KiB and the body is
\* read to its end without an error, the assistant text is the in-order
\* concatenation of the string "content" of the lines that start with
\* "data: " and carry well-formed JSON, lines without the marker and lines
\* with malformed JSON add nothing and end nothing, and the transcript grows
\* by exactly one assistant entry; a longer line or a read error ends the
\* session with an error, what came before it is printed and the transcript
\* does not grow.
C13_StreamParse ==
    Streamed =>
        IF /\ ~ proxy.reply.stream.broken
           /\ Scannable(proxy.reply.stream.lines) = proxy.reply.stream.lines
        THEN /\ proxy.pc = "chat"
             /\ Len(proxy.history) = proxy.requests[Len(proxy.requests)].hist + 1
             /\ Len(proxy.history) = 2 * Len(proxy.requests)
             /\ proxy.history[Len(proxy.history)] = Expected(proxy.reply.stream.lines)
             /\ proxy.out[Len(proxy.out)] = Expected(proxy.reply.stream.lines)
        ELSE /\ proxy.pc = "done" /\ proxy.result = "reading stream"
             /\ Len(proxy.history) = proxy.requests[Len(proxy.requests)].hist
             /\ proxy.out[Len(proxy.out)] = Expected(Scannable(proxy.reply.stream.lines))

\* two fragments and a line without the marker: "Hi there", one more entry
C13_Witness ==
    /\ Streamed
    /\ proxy.reply.stream = [lines |-> <<L_hi, L_there, L_bare>>, broken |-> FALSE]
    /\ Len(proxy.history) = 2
    /\ proxy.history[2] = <<"H", "i", " ", "t", "h", "e", "r", "e">>

\* the transcript written out entry by entry, user and assistant in turn
RECURSIVE Serialized(_)
Serialized(history) ==
    IF history = <<>> THEN Instruction
    ELSE Serialized(SubSeq(history, 1, Len(history) - 1))
         \o (IF Len(history) % 2 = 1 THEN HumanTag ELSE AssistantTag)
         \o history[Len(history)]

\* C14: the transcript of a chat session holds user and assistant entries in
\* turn, the first one of the user: while the session waits for input after k
\* completed turns its length is 2k; when a request is sent its length is odd
\* and the prompt is the whole transcript written out, ending in the open
\* "\n### Assistant: "; the input exit ends the session with nothing appended
\* and nothing sent.
C14_TranscriptAlternates ==
    /\ [](proxy.cmd = "chat" =>
            /\ proxy.pc = "chat" => Len(proxy.history) = 2 * Len(proxy.requests)
            /\ \A n \in DOMAIN proxy.requests : proxy.requests[n].hist = 2 * n - 1
            /\ proxy.pc = "stream" =>
                /\ Len(proxy.history) = 2 * Len(proxy.requests) - 1
                /\ proxy.requests[Len(proxy.requests)].body
                    = Serialized(proxy.history) \o AssistantTag
            /\ \A n \in DOMAIN proxy.requests :
                /\ HasSuffix(proxy.requests[n].body, AssistantTag)
                /\ proxy.requests[n].body
                    = Serialized(SubSeq(proxy.history, 1, 2 * n - 1)) \o AssistantTag)
    /\ [][(proxy.cmd = "chat" /\ proxy.pc = "chat" /\ proxy'.pc = "done"
           /\ proxy'.result = "ok")
            => /\ proxy'.history = proxy.history
               /\ proxy'.requests = proxy.requests
               /\ Len(proxy.history) = 2 * Len(proxy.requests)]_vars

\* two turns were completed and the user typed exit
C14_Witness ==
    /\ proxy.cmd = "chat" /\ proxy.pc = "done" /\ proxy.result = "ok"
    /\ Len(proxy.history) = 4 /\ Len(proxy.requests) = 2
    /\ proxy.history[1] = T_hi
    /\ proxy.history[2] # <<>>

\* the reply to the last request came with a status that is no success
Refused ==
    /\ "body" \in DOMAIN proxy.reply
    /\ ~ proxy.reply.err
    /\ proxy.reply.status # 0
    /\ proxy.reply.status \notin 200..299

\* C15: in Run, Chat, Embed, Tokenize, Detokenize, CheckHealth and
\* GetProperties a reply whose status is no success makes the command return
\* an error that ends in the body of the reply as it came, and nothing of the
\* reply is printed; in Chat the session is over, without an assistant entry.
C15_StatusAborts ==
    Refused =>
        /\ proxy.pc = "done" /\ proxy.result = "status"
        /\ HasSuffix(proxy.msg, <<":", " ">> \o proxy.reply.body)
        /\ \E n \in 1..Len(proxy.msg) : LiteralAt(proxy.msg, Itoa(proxy.reply.status), n)
        /\ IF proxy.cmd = "chat"
           THEN /\ Len(proxy.out) = Len(proxy.requests) - 1
                /\ Len(proxy.history) = 2 * Len(proxy.requests) - 1
           ELSE proxy.out = <<>> /\ Len(proxy.requests) = 1

\* health against a server that answers 503 "busy"
C15_Witness ==
    /\ Refused
    /\ proxy.cmd = "health"
    /\ proxy.reply.status = 503 /\ proxy.reply.body = B_busy
    /\ proxy.msg = <<"A", "P", "I", " ", "r", "e", "t", "u", "r", "n", "e", "d", " ", "s", "t", "a", "t", "u", "s", " ", "5", "0", "3", ":", " ", "b", "u", "s", "y">>

----------------------------------------------------------------------------
(* Pull *)

\* a pull of the identifier has succeeded and its file is there
Pulled(modelID) ==
    \E r \in models : r.model_id = modelID /\ r.file_path \in DOMAIN files

\* C16 as stated: once a pull of an identifier has succeeded, another pull of
\* it warns and returns without asking the hub or the downloader, and changes
\* neither the files nor a record.
C16_PullIdempotent ==
    [][(last'.op = "pull" /\ Pulled(last'.args[1]))
        => /\ last'.err = "exists"
           /\ UNCHANGED <<models, dirs, files>>]_vars

\* the names of the manifest that end in q4_k_m.gguf, whatever their case
Matching(manifest) ==
    {n \in DOMAIN manifest : HasSuffix(ToLower(manifest[n]), Q4Suffix)}

\* C17: when the manifest of a valid identifier that has no model directory
\* yet holds no name ending in q4_k_m.gguf, Pull returns an error and has
\* made no directory, no file and no record; the downloader, which would have
\* left a file, was not run. The error is returned in no other case.
C17_NoMatchNoTrace ==
    [][last'.op = "pull" =>
        /\ (/\ validateModelID(last'.args[1])
            /\ Join(ModelsDir, last'.args[1]) \notin dirs
            /\ last'.args[2].http = "ok"
            /\ Matching(last'.args[2].manifest) = {})
            => last'.err = "nofile"
        /\ last'.err = "nofile" =>
            /\ Matching(last'.args[2].manifest) = {}
            /\ UNCHANGED <<models, dirs, files>>]_vars

\* a manifest of a readme and an f16 file, a downloader that would have
\* worked: the error, and neither directory nor record
C17_Witness ==
    /\ last.op = "pull" /\ last.err = "nofile" /\ last.args[1] = ID_ab
    /\ last.args[2].manifest = <<F_readme, F_f16>>
    /\ last.args[2].download = "ok"
    /\ Join(ModelsDir, ID_ab) \notin dirs
    /\ models = {} /\ DOMAIN files = {}

\* C18: a pull that succeeds has taken the first name of the manifest whose
\* lower-cased form ends in q4_k_m.gguf: that file and no other is new in the
\* model directory, and the record holds the name in its original case; with
\* one matching name in the manifest it is that one.
C18_FirstMatchSelected ==
    [][(last'.op = "pull" /\ last'.err = "ok") =>
        LET manifest == last'.args[2].manifest
            first == CHOOSE n \in Matching(manifest) : \A k \in Matching(manifest) : n <= k
            target == Join(Join(ModelsDir, last'.args[1]), manifest[first])
        IN  /\ Matching(manifest) # {}
            /\ DOMAIN files' = DOMAIN files \cup {target}
            /\ \E r \in models' :
                /\ r.slug = generateSlug(last'.args[1])
                /\ r.model_id = last'.args[1]
                /\ r.file_name = manifest[first]
                /\ r.file_path = target]_vars

\* one matching name between two others: it was downloaded and recorded
C18_Witness ==
    /\ last.op = "pull" /\ last.err = "ok"
    /\ last.args[2].manifest = <<F_f16, F_q4low, F_readme>>
    /\ DOMAIN files = {Join(Join(ModelsDir, ID_ab), F_q4low)}
    /\ \E r \in models : r.file_name = F_q4low

----------------------------------------------------------------------------
(* generateSlug *)

\* C19: for every identifier validateModelID accepts, generateSlug gives the
\* same slug on every call, and the slug consists of characters of [a-z0-9-]
\* only, holds no upper-case letter, and has no hyphen at either end.
C19_SlugShape ==
    /\ []((last.op = "generateSlug" /\ last.pre) =>
            /\ last.err = "ok"
            /\ \A n \in DOMAIN last.args[2] :
                /\ last.args[2][n] \in Range(LowerSeq) \cup Range(DigitSeq) \cup {"-"}
                /\ last.args[2][n] \notin Range(UpperSeq)
            /\ last.args[2] # <<>> =>
                /\ last.args[2][1] # "-"
                /\ last.args[2][Len(last.args[2])] # "-")
    /\ [][(last.op = "generateSlug" /\ last'.op = "generateSlug")
            => last'.args[2] = last.args[2]]_vars

\* B/a- is accepted; its slug is b-a, both times
C19_Witness ==
    /\ last.op = "generateSlug" /\ last.pre
    /\ last.args[1] = <<"B", "/", "a", "-">>
    /\ last.args[2] = <<"b", "-", "a">>
    /\ last.args[3] = 2

----------------------------------------------------------------------
(* ImportExisting *)

\* the path is inside the directory
Below(dir, path) == HasPrefix(path, dir \o <<"/">>)

\* a model file of the tree that the walk was able to list and whose upsert
\* did not fail
Importable(f, fault) ==
    /\ HasSuffix(ToLower(f), GgufExt)
    /\ Len(Split(Rel(ModelsDir, f))) >= 2
    /\ f \notin fault.faultAt
    /\ \A d \in fault.unreadable : ~Below(d, f)

\* C20: an import never aborts on one bad entry: whether an entry was
\* unreadable or an upsert failed, ImportExisting returns success and every
\* other *.gguf file of the tree has been processed, so that the store holds a
\* record under its slug.
C20_ImportNeverAborts ==
    last.op = "import" =>
        /\ last.err = "ok"
        /\ \A f \in DOMAIN files :
            Importable(f, last.args[1]) =>
                \E r \in models :
                    r.slug = generateSlug(ImportModelID(Split(Rel(ModelsDir, f))))

----------------------------------------------------------------------
(* The command line *)

\* C21: each of the 17 subcommands, invoked as `<command> --help` with no
\* further argument, prints its usage and returns success, without calling
\* the command's function and without a missing-argument error.
C21_HelpEverywhere ==
    (/\ last.op = "run"
     /\ Len(last.args[1]) = 2
     /\ last.args[1][1] \in Subcommands
     /\ last.args[1][2] = Help)
    => /\ last.args[2] = "help"
       /\ last.err = "ok"
       /\ last.args[3] = "none"

----------------------------------------------------------------------
(* Timestamps of a record *)

\* C22: created_at is set when the slug is first inserted, and no operation
\* changes it while the record exists: a slug that is in the store before and
\* after a step has the same created_at, and a renamed record takes its
\* created_at along.
C22_CreatedAtSetOnce ==
    [][/\ \A r \in models, q \in models' :
            q.slug = r.slug => q.created_at = r.created_at
       /\ (last'.op = "UpdateModelSlug" /\ last'.err = "ok")
          => \A r \in models, q \in models' :
                (r.slug = last'.args[1] /\ q.slug = last'.args[2])
                => q.created_at = r.created_at]_vars

----------------------------------------------------------------------
(* The server behind the port *)

\* C23: whenever EnsureServerRunning returns nil, the process that holds the
\* port is a server started with the file of the slug it was called for; a
\* server of another model holding the port never makes the call succeed.
C23_ReadyMeansOwnModel ==
    [][\A i \in Invocations :
        (inv[i].pc # "done" /\ inv'[i].pc = "done" /\ inv'[i].result = "ok")
        => \E q \in procs' : q.pid = port' /\ q.cmd = CmdLine(inv'[i].path)]_vars

----------------------------------------------------------------------
(* KillAll among processes that come and go *)

\* C24: every pid that KillAll sends SIGKILL to was sent SIGTERM before, by
\* the same call, also when servers start or exit between the two scans.
C24_KillOnlyAfterTerm ==
    \A b \in 1..Len(sigs) :
        sigs[b].sig = "KILL" =>
            \E a \in 1..(b - 1) : sigs[a].pid = sigs[b].pid /\ sigs[a].sig = "TERM"

----------------------------------------------------------------------
(* rm of a record whose file cannot be deleted *)

\* the file of the record cannot be deleted: it is not there, or os.Remove is
\* refused
Undeletable(rec, fault) ==
    ~ Exists(dirs, files, rec.file_path) \/ fault = "second"

\* C25: rm of a present record whose file cannot be deleted fails and changes
\* nothing: the record is the one get returns and is in the list afterwards,
\* so rm in that state fails again.
C25_RmKeepsRecord ==
    [][(last'.op = "rm" /\ last'.args[1] \in Slugs(models))
       => LET slug == last'.args[1]
              rec  == GetModelBySlug(models, slug, FALSE).model
          IN  Undeletable(rec, last'.args[2])
              => /\ last'.err # "ok"
                 /\ models' = models /\ files' = files /\ dirs' = dirs
                 /\ GetModelBySlug(models', slug, FALSE).err = "ok"
                 /\ GetModelBySlug(models', slug, FALSE).model = rec
                 /\ \A l \in GetAllModels(models') : \E n \in DOMAIN l : l[n] = rec
                 /\ Remove(models', dirs', files', slug, FALSE,
                           last'.args[2] = "second", FALSE).err = "file"
      ]_vars

\* rm failed on a record whose file was already gone before it
C25_Witness ==
    /\ last.op = "rm" /\ last.err = "file" /\ last.args[2] = "none"
    /\ ~ last.pre
    /\ \E r \in models : r.slug = last.args[1] /\ ~ Exists(dirs, files, r.file_path)

----------------------------------------------------------------------
(* alias onto a slug that is taken *)

\* C26: alias(old, new) fails and leaves every record as it was when old is
\* absent or when new is the slug of a record, new = old included; the record
\* that holds new is neither replaced nor deleted.
C26_AliasRefused ==
    [][(/\ last'.op = "alias"
        /\ \/ last'.args[1] \notin Slugs(models)
           \/ last'.args[2] \in Slugs(models))
       => /\ last'.err # "ok"
          /\ models' = models]_vars

----------------------------------------------------------------------
(* The records an import leaves *)

\* the model files of the tree that lie below a directory of the root
ModelFiles ==
    {f \in DOMAIN files : HasSuffix(ToLower(f), GgufExt) /\ Dir(f) # ModelsDir}

\* the slug of a file: that of its directory, relative to the root
DirSlug(f) == generateSlug(Rel(ModelsDir, Dir(f)))

\* the position of a path in the walk of the tree
WalkIndex(p) ==
    LET w == Walk(dirs, files, ModelsDir)
    IN  CHOOSE n \in 1..Len(w) : w[n] = p

\* an import without failures has just run on an empty store
ImportedFresh ==
    /\ last.op = "import" /\ last.err = "ok" /\ ~ last.pre
    /\ last.args[1].unreadable = {} /\ last.args[1].faultAt = {}

\* C27 as stated: after a successful import over an empty store there is
\* exactly one record per directory that directly contains a *.gguf file
\* below the root, holding the file of that directory visited last.
C27_OneRecordPerDirectory ==
    ImportedFresh =>
        /\ Cardinality(models) = Cardinality({Dir(f) : f \in ModelFiles})
        /\ \A f \in ModelFiles :
            \E r \in models :
                /\ Dir(r.file_path) = Dir(f)
                /\ \A g \in ModelFiles :
                    Dir(g) = Dir(f) => WalkIndex(g) <= WalkIndex(r.file_path)

\* C27 as the code has it: the slug comes from the directory alone, and there
\* is exactly one record per slug of the directories that hold a *.gguf file
\* below the root; it holds, of all files whose directories map to that slug,
\* the one visited last, with the directory's relative path as model_id; a
\* file directly in the root produces no record.
C27_OneRecordPerSlug ==
    ImportedFresh =>
        /\ Slugs(models) = {DirSlug(f) : f \in ModelFiles}
        /\ \A r, q \in models : r.slug = q.slug => r = q
        /\ \A r \in models :
            /\ r.file_path \in ModelFiles
            /\ r.slug = DirSlug(r.file_path)
            /\ r.model_id = Rel(ModelsDir, Dir(r.file_path))
            /\ r.file_name = Base(r.file_path)
            /\ \A g \in ModelFiles :
                DirSlug(g) = r.slug => WalkIndex(g) <= WalkIndex(r.file_path)

\* two files of one directory, a file in a directory with the same slug and a
\* file in the root were imported into one record
C27_Witness ==
    /\ ImportedFresh
    /\ {P_nested, P_beside, P_dash, P_top} \subseteq DOMAIN files
    /\ \E r \in models : r.slug = generateSlug(ID_ab) /\ r.file_path = P_dash
    /\ Cardinality({r \in models : r.slug = generateSlug(ID_ab)}) = 1

====
